---- MODULE Spec2Model ----
(***************************************************************************)
(* Verification model of the assembly core of the nonlocal finite-element  *)
(* solver: the two-pass sparse indexer of finite_element_solver_base, the  *)
(* boundary-condition routines of the 2D and 1D solvers and the elasticity *)
(* triplet assembly.  Scalars of type T are modelled by integers, so every *)
(* algebraic identity is checked exactly.                                  *)
(***************************************************************************)
EXTENDS Integers, Sequences, FiniteSets, TLC

(***************************************************************************)
(* Bounds of the model.                                                    *)
(***************************************************************************)
MaxElems     == 2   \* 2D elements of the mesh (a strip of triangles)
NumThreads   == 2   \* threads of a parallel region
MaxGroups    == 2   \* boundary groups of the 2D mesh
MaxSteps     == 2   \* time steps of the non-stationary solver
MaxCalls     == 3   \* calls of set_mesh on one solver, the constructor's included
MaxQuad      == 3   \* nodes of a quadrature rule

VARIABLES
    sys,            \* which part of the program runs: "idx", "bc", "bc1d", "el",
                    \* "st1d", "ns1d", "quad", "proxy", "cli", "su2",
                    \* "mass", "elint"
    bgroup,         \* 2D mesh: per boundary group, its elements' node numbers
    bounds_cond,    \* the boundary conditions (bounds_cond in 2D, bound_cond in 1D)
    f,              \* the right-hand side vector
    x,              \* the vector x of boundary_condition_first_kind, once built
    f_in,           \* history: f as the routine that ran last received it
    triplets,       \* elasticity: the triplets of K
    triplets_bound, \* elasticity: the triplets of K_bound
    pc,             \* position of the driver of that part
    dof,            \* template parameter DoF
    theory,         \* template parameter Theory: "LOCAL" or "NONLOCAL"
    elements_count, \* mesh().elements_count()
    radius,         \* radius find_neighbours was run with
    first_node,     \* mesh_proxy()->first_node()
    last_node,      \* mesh_proxy()->last_node()
    inner_nodes,    \* std::vector<bool> inner_nodes, indexed by DoF index
    K_inner,        \* Eigen::SparseMatrix K_inner: [outer, inner, value]
    K_bound,        \* K_bound: [outer, inner, value] while indexed; its coefficients
                    \* K_bound[r][c] where only its product matters; in 1D the pairs
                    \* <<i, val>> of each end
    ind,            \* per thread: the firstprivate copy of the indexator
    cur,            \* per thread: the node whose loop body it ran last (-1: none)
    todo,           \* iterations of the parallel loop not yet handed out
    presort,        \* history: K_inner and K_bound as sort_indices received them
    writes,         \* history: node -> the (local row, slot) pairs its loop body
                    \* wrote in the current pass, per matrix: slots of outer in
                    \* SHIFTS, slots of inner/value in NONZERO; in the elasticity
                    \* assembly, per triplet array: slot -> who wrote it, and
                    \* the <<DoF, group>> boundary_condition_calc prescribed;
                    \* in the 1D non-stationary solver, the passes of the loop
    temperature,    \* 1D solver: the returned solution; temperature_prev when
                    \* non-stationary
    C_inner,        \* 1D non-stationary solver: the matrix C_inner
    step,           \* 1D non-stationary solver: the loop variable step
    right_part,     \* the argument right_part of the 1D solver and of
                    \* integrate_right_part, a function of a point
    sol_parameters, \* 1D non-stationary solver: [time_interval, steps, save_freq]
    args,           \* the arguments of the call of a routine of the mesh utilities,
                    \* of main, or, as history, of the calls of set_mesh so far;
                    \* the argument init_dist of the 1D non-stationary solver
    data,           \* mesh utilities: the output vector; per index the loop
                    \* iterations that stored into it and the number of stores;
                    \* 1D non-stationary solver: the calls of the logger
    mesh_proxy,     \* finite_element_solver_base::_mesh_proxy
    exit_code,      \* the value main returned
    elements,           \* mesh_container_2d::_elements
    elements_groups,    \* mesh_container_2d::_elements_groups: name -> <<first, last>>
    groups_1d,          \* mesh_container_2d::_groups_1d
    elements_2d_count   \* mesh_container_2d::_elements_2d_count

idxvars == <<dof, theory, elements_count, radius, first_node, last_node,
             inner_nodes, K_inner, K_bound, ind, cur, todo, presort, writes>>

bcvars == <<bgroup, bounds_cond, f, x, f_in>>

elvars == <<triplets, triplets_bound>>

s1dvars == <<temperature, C_inner, step, right_part, sol_parameters>>

meshvars == <<elements, elements_groups, groups_1d, elements_2d_count>>

drvvars == <<args, data, mesh_proxy, exit_code, meshvars>>

vars == <<sys, pc, idxvars, bcvars, elvars, s1dvars, drvvars>>

\* no routine of the mesh utilities, no solver object and no main in this run
\* a mesh container as its constructor leaves it
EmptyContainer ==
    /\ elements = <<>> /\ elements_groups = <<>>
    /\ groups_1d = {} /\ elements_2d_count = 0

IdleDriver ==
    /\ args = <<>> /\ data = <<>> /\ mesh_proxy = "nullptr" /\ exit_code = 0
    /\ EmptyContainer

Threads == 1..NumThreads
Garbage == -1       \* content of a slot after resize() and before any write

(***************************************************************************)
(* Helpers on finite sets and sequences.                                   *)
(***************************************************************************)
RECURSIVE SortedSeq(_)
SortedSeq(S) ==
    IF S = {} THEN <<>>
    ELSE LET m == CHOOSE a \in S : \A b \in S : a <= b
         IN  <<m>> \o SortedSeq(S \ {m})

RECURSIVE Flatten(_)
Flatten(ss) == IF ss = <<>> THEN <<>> ELSE Head(ss) \o Flatten(Tail(ss))

Abs(a) == IF a < 0 THEN -a ELSE a

RECURSIVE SumSeq(_)
SumSeq(q) == IF q = <<>> THEN 0 ELSE Head(q) + SumSeq(Tail(q))

(***************************************************************************)
(* The mesh: a strip of triangles, element e on the nodes e, e+1, e+2; the  *)
(* local numbering of every other element starts at its middle node, so    *)
(* that a traversal does not meet the columns in ascending order.          *)
(***************************************************************************)
nodes_count_2d(e) == 3
node_number(e, j) == IF e % 2 = 0 /\ j < 2 THEN e + 1 - j ELSE e + j
mesh_nodes_count == elements_count + 2
ElementNodes(e) == <<node_number(e, 0), node_number(e, 1), node_number(e, 2)>>

\* node_elements_2d: the elements incident on a node, in element order
nodes_elements_map(node) ==
    SortedSeq({e \in 0..(elements_count - 1) :
                 \E j \in 0..(nodes_count_2d(e) - 1) : node_number(e, j) = node})

\* neighbors[e]: sorted and unique, within the radius, e itself included
neighbors(e) ==
    SortedSeq({e2 \in 0..(elements_count - 1) : Abs(e - e2) <= radius})

\* the block columns handed to index() by the loop body of mesh_index for one node
Traversal(node) ==
    LET nem == nodes_elements_map(node)
        perElement(eL) ==
            IF theory = "LOCAL" THEN ElementNodes(eL)
            ELSE LET nb == neighbors(eL)
                 IN  Flatten([m \in 1..Len(nb) |-> ElementNodes(nb[m])])
    IN  Flatten([k \in 1..Len(nem) |-> perElement(nem[k])])

(***************************************************************************)
(* The indexator.  Its state while a loop body runs is the record          *)
(*   [K     : "inner"/"bound" -> [outer, inner, value]   the two matrices  *)
(*    bits  : "inner"/"bound" -> comp -> set of columns  _inner, _bound    *)
(*    index : "inner"/"bound" -> comp -> cursor          _inner_index, ... *)
(*    wr    : "inner"/"bound" -> (local row, slot) written   history       *)
(*    pos   : position of the loop body in Traversal(node)]                *)
(* The std::array<.., DoF> members are pairs, component comp at position   *)
(* comp + 1; for DoF = 1 the second position is never used.                *)
(***************************************************************************)
Rows == dof * (last_node - first_node)
Cols == dof * mesh_nodes_count
Comps == 0..(dof - 1)
Which == {"inner", "bound"}

\* the constructor of indexator: bitsets sized and all false, cursors zero
NewIndexator ==
    [bits  |-> [inner |-> <<{}, {}>>, bound |-> <<{}, {}>>],
     index |-> [inner |-> <<0, 0>>, bound |-> <<0, 0>>]]

\* fill() reading the cursor of component 0 for every component
fill_sameCursor(s, node) ==
    LET cursor(w) == s.K[w].outer[dof * (node - first_node)]
        kept(i) == {c \in s.bits.inner[i + 1] : c < dof * node}
    IN  [s EXCEPT
           !.index = [inner |-> <<cursor("inner"), cursor("inner")>>,
                      bound |-> <<cursor("bound"), cursor("bound")>>],
           !.bits  = [inner |-> <<kept(0), kept(1)>>, bound |-> <<{}, {}>>]]

\* fill() that clears the K_bound bitsets only
fill_keepsInner(s, node) ==
    LET cursor(w, i) == IF i < dof THEN s.K[w].outer[dof * (node - first_node) + i] ELSE 0
    IN  [s EXCEPT
           !.index = [inner |-> <<cursor("inner", 0), cursor("inner", 1)>>,
                      bound |-> <<cursor("bound", 0), cursor("bound", 1)>>],
           !.bits  = [inner |-> s.bits.inner, bound |-> <<{}, {}>>]]

\* indexator::fill
fill(s, node) ==
    LET cursor(w, i) == IF i < dof THEN s.K[w].outer[dof * (node - first_node) + i] ELSE 0
        kept(i) == {c \in s.bits.inner[i + 1] : c < dof * node}
    IN  [s EXCEPT
           !.index = [inner |-> <<cursor("inner", 0), cursor("inner", 1)>>,
                      bound |-> <<cursor("bound", 0), cursor("bound", 1)>>],
           !.bits  = [inner |-> <<kept(0), kept(1)>>, bound |-> <<{}, {}>>]]

\* stage() with SHIFTS counting a column at every visit, seen or not
stage_countsRepeats(s, Stage, w, row, col) ==
    LET i == (row % dof) + 1
        slot == row - dof * first_node + 1
    IN  IF Stage = "SHIFTS"
        THEN [s EXCEPT !.K[w].outer[slot] = @ + 1,
                       !.bits[w][i] = @ \cup {col},
                       !.wr[w] = @ \cup {<<row - dof * first_node, slot>>}]
        ELSE IF col \in s.bits[w][i] THEN s
        ELSE LET k == s.index[w][i]
             IN  [s EXCEPT !.K[w].value =
                               IF k + 1 \in DOMAIN @ THEN [@ EXCEPT ![k + 1] = 0] ELSE @,
                           !.K[w].inner =
                               IF k + 1 \in DOMAIN @ THEN [@ EXCEPT ![k + 1] = col] ELSE @,
                           !.index[w][i] = k + 1,
                           !.bits[w][i] = @ \cup {col},
                           !.wr[w] = @ \cup {<<row - dof * first_node, k>>}]

\* stage() with NONZERO using outer[row] itself as the write cursor of the row
stage_cursorInOuter(s, Stage, w, row, col) ==
    LET i == (row % dof) + 1
        r == row - dof * first_node
    IN  IF col \in s.bits[w][i] THEN s
        ELSE IF Stage = "SHIFTS"
             THEN [s EXCEPT !.K[w].outer[r + 1] = @ + 1,
                            !.bits[w][i] = @ \cup {col},
                            !.wr[w] = @ \cup {<<r, r + 1>>}]
             ELSE LET k == s.K[w].outer[r]
                  IN  [s EXCEPT !.K[w].value =
                                    IF k + 1 \in DOMAIN @ THEN [@ EXCEPT ![k + 1] = 0] ELSE @,
                                !.K[w].inner =
                                    IF k + 1 \in DOMAIN @ THEN [@ EXCEPT ![k + 1] = col] ELSE @,
                                !.K[w].outer[r] = k + 1,
                                !.index[w][i] = k + 1,
                                !.bits[w][i] = @ \cup {col},
                                !.wr[w] = @ \cup {<<r, k>>}]

\* indexator::stage
stage(s, Stage, w, row, col) ==
    LET i == (row % dof) + 1
    IN  IF col \in s.bits[w][i] THEN s
        ELSE IF Stage = "SHIFTS"
             THEN LET slot == row - dof * first_node + 1
                  IN  [s EXCEPT !.K[w].outer[slot] = @ + 1,
                                !.bits[w][i] = @ \cup {col},
                                !.wr[w] = @ \cup {<<row - dof * first_node, slot>>}]
             ELSE LET k == s.index[w][i]
                  IN  [s EXCEPT !.K[w].value =
                                    IF k + 1 \in DOMAIN @ THEN [@ EXCEPT ![k + 1] = 0] ELSE @,
                                !.K[w].inner =
                                    IF k + 1 \in DOMAIN @ THEN [@ EXCEPT ![k + 1] = col] ELSE @,
                                !.index[w][i] = k + 1,
                                !.bits[w][i] = @ \cup {col},
                                !.wr[w] = @ \cup {<<row - dof * first_node, k>>}]

\* the routing with the diagonal of interior rows left out (row < col)
index_pair_strictUpper(s, Stage, row, col) ==
    IF inner_nodes[row] /\ inner_nodes[col]
    THEN IF row < col
         THEN stage(s, Stage, "inner", row, col)
         ELSE s
    ELSE IF row # col
         THEN IF ~inner_nodes[col]
              THEN stage(s, Stage, "bound", row, col)
              ELSE s
         ELSE stage(s, Stage, "inner", row, col)

\* the body of the double loop of indexator::index for one (row, col)
index_pair(s, Stage, row, col) ==
    IF inner_nodes[row] /\ inner_nodes[col]
    THEN IF row <= col
         THEN stage(s, Stage, "inner", row, col)
         ELSE s
    ELSE IF row # col
         THEN IF ~inner_nodes[col]
              THEN stage(s, Stage, "bound", row, col)
              ELSE s
         ELSE stage(s, Stage, "inner", row, col)

\* the double loop over (comp_row, comp_col), k = DoF * comp_row + comp_col
RECURSIVE IndexFrom(_, _, _, _, _)
IndexFrom(s, Stage, block_row, block_col, k) ==
    IF k >= dof * dof THEN s
    ELSE IndexFrom(index_pair(s, Stage, dof * block_row + (k \div dof),
                                        dof * block_col + (k % dof)),
                   Stage, block_row, block_col, k + 1)

\* indexator::index
index(s, Stage, block_row, block_col) == IndexFrom(s, Stage, block_row, block_col, 0)

\* the loops over eL, (eNL,) jL of the body; s.pos is the position in Traversal
RECURSIVE BodyFrom(_, _, _, _)
BodyFrom(s, Stage, node, tr) ==
    IF s.pos > Len(tr) THEN s
    ELSE BodyFrom([index(s, Stage, node, tr[s.pos]) EXCEPT !.pos = @ + 1], Stage, node, tr)

\* the loop body of mesh_index for one node
mesh_index_body(s, Stage, node) == BodyFrom(fill(s, node), Stage, node, Traversal(node))

\* the loop of prepare_memory: outer[i + 1] += outer[i] for i = 0 .. rows - 1
RECURSIVE PrefixFrom(_, _)
PrefixFrom(o, i) ==
    IF i >= Rows THEN o
    ELSE PrefixFrom([o EXCEPT ![i + 1] = @ + o[i]], i + 1)

\* prepare_memory
prepare_memory(K) ==
    LET outer == PrefixFrom(K.outer, 0)
    IN  [outer |-> outer,
         inner |-> [k \in 1..outer[Rows] |-> Garbage],
         value |-> [k \in 1..outer[Rows] |-> Garbage]]

\* the columns of one row, in storage order
RowCols(K, r) == [k \in 1..(K.outer[r + 1] - K.outer[r]) |-> K.inner[K.outer[r] + k]]

RECURSIVE std_sort(_)
std_sort(q) ==
    IF q = <<>> THEN <<>>
    ELSE LET m == CHOOSE i \in 1..Len(q) : \A j \in 1..Len(q) : q[i] <= q[j]
         IN  <<q[m]>> \o std_sort([j \in 1..(Len(q) - 1) |-> IF j < m THEN q[j] ELSE q[j + 1]])

\* one std::sort over the whole column array instead of one per row
sort_indices_wholeArray(K) == [K EXCEPT !.inner = std_sort(K.inner)]

\* sort_indices: std::sort of every row's column range
sort_indices(K) ==
    [K EXCEPT !.inner = Flatten([r \in 1..Rows |-> std_sort(RowCols(K, r - 1))])]

(***************************************************************************)
(* The driver of the two passes.                                           *)
(***************************************************************************)
OwnedNodes == first_node..(last_node - 1)

\* the first-kind DoFs: none, or the components cs of the nodes of one boundary
\* element (the nodes a and a+1 of the strip's boundary; a alone at its end)
FirstKindSets(n, d) ==
    {{}} \cup {{d * m + c : m \in {a, a + len} \cap (0..(n - 1)), c \in cs} :
                 a \in 0..(n - 1), len \in {0, 1}, cs \in (SUBSET (0..(d - 1))) \ {{}}}

InitIdx ==
    /\ sys = "idx"
    /\ pc = "shifts"
    /\ bgroup = <<>> /\ bounds_cond = <<>> /\ f = <<>> /\ x = <<>> /\ f_in = <<>>
    /\ triplets = <<>> /\ triplets_bound = <<>>
    /\ temperature = <<>> /\ C_inner = <<>> /\ step = 0 /\ right_part = "zero"
    /\ sol_parameters = <<>>
    /\ IdleDriver
    /\ dof \in {1, 2}
    /\ theory \in {"LOCAL", "NONLOCAL"}
    /\ elements_count \in 1..MaxElems
    /\ radius \in 0..elements_count
    /\ radius <= 1 \/ radius < elements_count
    /\ theory = "LOCAL" => radius = 0
    /\ theory = "NONLOCAL" => radius >= 1
    /\ \/ first_node = 0 /\ last_node = elements_count + 2
       \/ first_node = 1 /\ last_node = elements_count + 1
    /\ \E fk \in FirstKindSets(elements_count + 2, dof) :
           inner_nodes = [d \in 0..(dof * (elements_count + 2) - 1) |-> d \notin fk]
    /\ K_inner = [outer |-> [i \in 0..(dof * (last_node - first_node)) |-> 0],
                  inner |-> <<>>, value |-> <<>>]
    /\ K_bound = K_inner
    /\ ind = [t \in Threads |-> NewIndexator]
    /\ cur = [t \in Threads |-> -1]
    /\ todo = first_node..(last_node - 1)
    /\ presort = [inner |-> K_inner, bound |-> K_bound]
    /\ writes = [n \in first_node..(last_node - 1) |-> [inner |-> {}, bound |-> {}]]

\* one iteration of the parallel loop of mesh_index, run by thread t;
\* schedule(dynamic) hands a thread any iteration not yet handed out
LoopBody(t, Stage) ==
    \E node \in todo :
        LET s0 == [K |-> [inner |-> K_inner, bound |-> K_bound],
                   bits |-> ind[t].bits, index |-> ind[t].index,
                   wr |-> [inner |-> {}, bound |-> {}], pos |-> 1]
            s1 == mesh_index_body(s0, Stage, node)
        IN  /\ K_inner' = s1.K.inner
            /\ K_bound' = s1.K.bound
            /\ ind' = [ind EXCEPT ![t] = [bits |-> s1.bits, index |-> s1.index]]
            /\ cur' = [cur EXCEPT ![t] = node]
            /\ todo' = todo \ {node}
            /\ writes' = [writes EXCEPT ![node] = s1.wr]

Frame == UNCHANGED <<sys, dof, theory, elements_count, radius, first_node,
                     last_node, inner_nodes, bcvars, elvars, s1dvars, drvvars>>


\* mesh_index<DoF, SHIFTS, Theory>
MeshIndexShifts(t) ==
    /\ sys = "idx" /\ pc = "shifts"
    /\ LoopBody(t, "SHIFTS")
    /\ UNCHANGED <<pc, presort>>
    /\ Frame

\* the join of the SHIFTS loop, then prepare_memory(K_inner), prepare_memory(K_bound);
\* the next mesh_index constructs a new indexator and copies it to every thread
PrepareMemory ==
    /\ sys = "idx" /\ pc = "shifts" /\ todo = {}
    /\ K_inner' = prepare_memory(K_inner)
    /\ K_bound' = prepare_memory(K_bound)
    /\ ind' = [t \in Threads |-> NewIndexator]
    /\ cur' = [t \in Threads |-> -1]
    /\ todo' = OwnedNodes
    /\ writes' = [n \in OwnedNodes |-> [inner |-> {}, bound |-> {}]]
    /\ pc' = "nonzero"
    /\ UNCHANGED presort
    /\ Frame

\* mesh_index<DoF, NONZERO, Theory>
MeshIndexNonzero(t) ==
    /\ sys = "idx" /\ pc = "nonzero"
    /\ LoopBody(t, "NONZERO")
    /\ UNCHANGED <<pc, presort>>
    /\ Frame

\* the join of the NONZERO loop, which ends the life of the indexator and its
\* copies, then sort_indices(K_inner), sort_indices(K_bound)
SortIndices ==
    /\ sys = "idx" /\ pc = "nonzero" /\ todo = {}
    /\ K_inner' = sort_indices(K_inner)
    /\ K_bound' = sort_indices(K_bound)
    /\ ind' = [t \in Threads |-> NewIndexator]
    /\ cur' = [t \in Threads |-> -1]
    /\ presort' = [inner |-> K_inner, bound |-> K_bound]
    /\ pc' = "sorted"
    /\ UNCHANGED <<todo, writes>>
    /\ Frame

NextIdx ==
    \/ \E t \in Threads : MeshIndexShifts(t)
    \/ PrepareMemory
    \/ \E t \in Threads : MeshIndexNonzero(t)
    \/ SortIndices

(***************************************************************************)
(* Properties of the indexer.                                              *)
(***************************************************************************)
Matrix(w) == IF w = "inner" THEN K_inner ELSE K_bound
Range(q) == {q[k] : k \in DOMAIN q}
LocalRows == 0..(Rows - 1)
\* the columns stored in local row r of matrix w
StoredCols(w, r) == Range(RowCols(Matrix(w), r))
IsSorted(q) == \A k \in 1..(Len(q) - 1) : q[k] <= q[k + 1]
Count(q, c) == Cardinality({k \in DOMAIN q : q[k] = c})
NonzeroJoined == sys = "idx" /\ pc \in {"nonzero", "sorted"} /\ todo = {}

\* C1: the NONZERO pass writes, for every owned row and for both matrices,
\* exactly as many columns as SHIFTS counted: the cursor of a finished loop
\* body stands at outer[row+1], every write lands in the row's own slots, and
\* after the pass every slot of a row holds a column, none twice.
C1_PassesAgree ==
    (sys = "idx" /\ pc \in {"nonzero", "sorted"}) =>
        /\ \A t \in Threads : cur[t] # -1 =>
              \A i \in Comps, w \in Which :
                 ind[t].index[w][i + 1] = Matrix(w).outer[dof * (cur[t] - first_node) + i + 1]
        /\ \A n \in OwnedNodes, w \in Which : \A p \in writes[n][w] :
              /\ Matrix(w).outer[p[1]] <= p[2]
              /\ p[2] < Matrix(w).outer[p[1] + 1]
        /\ todo = {} =>
              \A w \in Which, r \in LocalRows :
                 /\ Garbage \notin StoredCols(w, r)
                 /\ Cardinality(StoredCols(w, r)) = Len(RowCols(Matrix(w), r))

C1_Witness ==
    /\ NonzeroJoined /\ dof = 2 /\ elements_count >= 2
    /\ K_bound.outer[Rows] >= 2
    /\ \E r \in LocalRows : Len(RowCols(K_inner, r)) >= 3

\* the columns reached by the traversal of the node of global row g
Reached(g) ==
    LET tr == Traversal(g \div dof)
    IN  {dof * tr[k] + j : k \in DOMAIN tr, j \in Comps}

\* C2: after both passes, a pair (r, c) of an owned row r and a column c is
\* stored in K_inner exactly when the traversal reaches it and either both are
\* interior with r <= c or r = c is first-kind; it is stored in K_bound exactly
\* when the traversal reaches it, r # c and c is first-kind; so it is in at
\* most one matrix, and a reached pair with both interior and c < r, or with
\* r first-kind, c interior and r # c, is in neither.
C2_StencilRouting ==
    (sys = "idx" /\ pc = "sorted") =>
        \A r \in LocalRows :
            LET g == r + dof * first_node
                reach == Reached(g)
                inK == StoredCols("inner", r)
                inB == StoredCols("bound", r)
            IN  /\ inK = {c \in reach : (inner_nodes[g] /\ inner_nodes[c] /\ g <= c)
                                          \/ (g = c /\ ~inner_nodes[g])}
                /\ inB = {c \in reach : g # c /\ ~inner_nodes[c]}
                /\ inK \cap inB = {}
                /\ \A c \in reach :
                      ((inner_nodes[g] /\ inner_nodes[c] /\ c < g)
                       \/ (~inner_nodes[g] /\ inner_nodes[c] /\ g # c))
                          => c \notin inK \cup inB

C2_Witness ==
    /\ sys = "idx" /\ pc = "sorted" /\ dof = 2
    /\ \E r \in LocalRows :
          LET g == r + dof * first_node
          IN  /\ ~inner_nodes[g] /\ g \in StoredCols("inner", r)
              /\ \E c \in Reached(g) : inner_nodes[c]
    /\ \E r \in LocalRows :
          LET g == r + dof * first_node
          IN  /\ inner_nodes[g] /\ StoredCols("bound", r) # {}
              /\ \E c \in Reached(g) : inner_nodes[c] /\ c < g

\* the local rows of an owned node
NodeRows(n) == {dof * (n - first_node) + i : i \in Comps}

\* C4: in each pass the slots written by the loop bodies of two different nodes
\* are disjoint, whichever thread ran them: in SHIFTS a body increments only
\* the counters outer[row + 1] of its own node's rows, in NONZERO it writes
\* only positions inside [outer[row], outer[row + 1]) of its own node's rows.
C4_WritesDisjoint ==
    sys = "idx" =>
        /\ \A n \in OwnedNodes, m \in OwnedNodes, w \in Which :
              n # m => {p[2] : p \in writes[n][w]} \cap {p[2] : p \in writes[m][w]} = {}
        /\ \A n \in OwnedNodes, w \in Which : \A p \in writes[n][w] :
              /\ p[1] \in NodeRows(n)
              /\ pc = "shifts" => p[2] = p[1] + 1
              /\ pc # "shifts" => /\ Matrix(w).outer[p[1]] <= p[2]
                                  /\ p[2] < Matrix(w).outer[p[1] + 1]

\* two threads have run loop bodies of the NONZERO pass, each wrote both matrices
C4_Witness ==
    /\ sys = "idx" /\ pc = "nonzero" /\ dof = 2
    /\ \E t \in Threads, u \in Threads :
          /\ t # u /\ cur[t] # -1 /\ cur[u] # -1
          /\ \A w \in Which : writes[cur[t]][w] # {} /\ writes[cur[u]][w] # {}

\* C5: after sort_indices every row's columns are ascending and are, counted
\* with multiplicity, the columns the row held before the call; the row
\* pointers are the same.
C5_SortedPermutation ==
    (sys = "idx" /\ pc = "sorted") =>
        \A w \in Which :
            /\ Matrix(w).outer = presort[w].outer
            /\ \A r \in LocalRows :
                  /\ IsSorted(RowCols(Matrix(w), r))
                  /\ \A c \in 0..(Cols - 1) :
                        Count(RowCols(Matrix(w), r), c) = Count(RowCols(presort[w], r), c)

\* sort_indices received a row that was not ascending, next to another row
C5_Witness ==
    /\ sys = "idx" /\ pc = "sorted"
    /\ \E r \in LocalRows : ~IsSorted(RowCols(presort.inner, r))
    /\ \E r \in LocalRows : ~IsSorted(RowCols(presort.bound, r))
    /\ Cardinality({r \in LocalRows : RowCols(K_inner, r) # <<>>}) >= 2

\* C6: a step of the NONZERO pass leaves outer of K_inner and of K_bound as
\* prepare_memory produced them.
C6_OuterReadOnly ==
    [][(sys = "idx" /\ pc = "nonzero" /\ pc' = "nonzero") =>
          /\ K_inner'.outer = K_inner.outer
          /\ K_bound'.outer = K_bound.outer]_vars

\* a loop body of the NONZERO pass has advanced its cursors in both matrices
C6_Witness ==
    /\ sys = "idx" /\ pc = "nonzero"
    /\ \E t \in Threads :
          /\ cur[t] # -1
          /\ ind[t].index.inner[1] > K_inner.outer[dof * (cur[t] - first_node)]
          /\ ind[t].index.bound[1] > K_bound.outer[dof * (cur[t] - first_node)]

(***************************************************************************)
(* The boundary of the 2D mesh and the boundary conditions.  The boundary  *)
(* of the strip is the cycle of its even nodes ascending and its odd nodes *)
(* descending; boundary element k joins the k-th node of the cycle to the  *)
(* next one, and the groups are consecutive arcs of the cycle, so that the *)
(* node where two arcs meet belongs to both groups.                        *)
(***************************************************************************)
BoundaryCycle ==
    LET evens == (mesh_nodes_count + 1) \div 2
        odds == mesh_nodes_count \div 2
    IN  [k \in 1..mesh_nodes_count |->
            IF k <= evens THEN 2 * (k - 1) ELSE 2 * (odds - (k - evens)) + 1]

boundary_groups_count == MaxGroups
Groups == 0..(boundary_groups_count - 1)

\* mesh().elements_count(b): the boundary elements of group b
elements_count_1d(b) == Len(bgroup[b + 1])
\* mesh().node_number(b, el, i) for the two nodes i of a boundary element
node_number_1d(b, el, i) == bgroup[b + 1][el + 1][i + 1]

\* the argument sequence of the callback of boundary_nodes_run
boundary_nodes_run ==
    Flatten([b1 \in 1..boundary_groups_count |->
        Flatten([el1 \in 1..elements_count_1d(b1 - 1) |->
            <<<<b1 - 1, el1 - 1, 0>>, <<b1 - 1, el1 - 1, 1>>>>])])

\* mesh().node(n): the coordinates of node n, a point abstracted to a number
mesh_node(n) == n + 1
\* what a read past the end of the node array may return
OutOfRangeReads == {0, 50}

\* the boundary functions: func(comp) of a boundary condition applied to a point
BoundaryFunctions == {"zero", "coord"}
Apply(fn, point) == IF fn = "zero" THEN 0 ELSE point

type(b, comp) == bounds_cond[b].type[comp + 1]
func(b, comp) == bounds_cond[b].func[comp + 1]

\* the DoF indices some group prescribes a first-kind condition for
FirstKindGroups(d) ==
    {b \in Groups : /\ type(b, d % dof) = "FIRST_KIND"
                    /\ \E el \in 0..(elements_count_1d(b) - 1), i \in 0..1 :
                          node_number_1d(b, el, i) = d \div dof}
FirstKindDoF(d) == FirstKindGroups(d) # {}

\* an entry of the assembled stiffness matrix coupling the DoFs g and c
StiffnessEntry(g, c) == 1 + ((g + c) % 2)

\* K_bound after assembly, as the coefficients K_bound(r, c) of local row r:
\* row g couples to the first-kind columns c # g of the nodes that share an
\* element with the node of g
AssembledKBound ==
    [r \in 0..(Rows - 1) |->
        [c \in 0..(Cols - 1) |->
            IF /\ c # r + dof * first_node
               /\ Abs(c \div dof - (r + dof * first_node) \div dof) <= 2
               /\ FirstKindDoF(c)
            THEN StiffnessEntry(r + dof * first_node, c)
            ELSE 0]]

\* (K * v)[r]
MatVecRow(K, v, r) == SumSeq([c1 \in 1..Cols |-> K[r][c1 - 1] * v[c1 - 1]])

(***************************************************************************)
(* The boundary-condition routines of finite_element_solver_base.          *)
(***************************************************************************)
\* the boundary element: two nodes, a quadrature node at each of them
nodes_count_1d == 2
qnodes_count_1d == 2
weight_1d(q) == 1
qN_1d(i, q) == IF i = q THEN 1 ELSE 0
quad_coord_1d(b, e, q) == mesh_node(node_number_1d(b, e, q))
jacobian_1d(b, e, q) == 1

\* integrate_boundary_gradient: qcoord and J advance with q
integrate_boundary_gradient(b, e, i, boundary_gradient) ==
    SumSeq([q1 \in 1..qnodes_count_1d |->
               weight_1d(q1 - 1) * qN_1d(i, q1 - 1)
                 * Apply(boundary_gradient, quad_coord_1d(b, e, q1 - 1))
                 * jacobian_1d(b, e, q1 - 1)])

\* the test of ownership that every DoF index passes
Owned_always(d) == TRUE

Owned(d) == d >= dof * first_node /\ d < dof * last_node

\* the iterations <<b, comp, e, i>> of the loops of
\* integrate_boundary_condition_second_kind, in order
SecondKindLoops ==
    Flatten([b1 \in 1..boundary_groups_count |->
        Flatten([c1 \in 1..dof |->
            Flatten([e1 \in 1..elements_count_1d(b1 - 1) |->
                [i1 \in 1..nodes_count_1d |-> <<b1 - 1, c1 - 1, e1 - 1, i1 - 1>>]])])])

\* the loop body; s is the record [f, written, pos]: the vector, the indices
\* of f written so far and the position in loops
RECURSIVE SecondKindFrom(_, _)
SecondKindFrom(s, loops) ==
    IF s.pos > Len(loops) THEN s
    ELSE LET b == loops[s.pos][1]
             comp == loops[s.pos][2]
             e == loops[s.pos][3]
             i == loops[s.pos][4]
             d == dof * node_number_1d(b, e, i) + comp
         IN  SecondKindFrom(
                 [f |-> IF type(b, comp) = "SECOND_KIND" /\ Owned(d)
                        THEN [s.f EXCEPT ![d - dof * first_node] =
                                 @ + integrate_boundary_gradient(b, e, i, func(b, comp))]
                        ELSE s.f,
                  written |-> IF type(b, comp) = "SECOND_KIND" /\ Owned(d)
                              THEN s.written \cup {d - dof * first_node}
                              ELSE s.written,
                  pos |-> s.pos + 1],
                 loops)

\* integrate_boundary_condition_second_kind
integrate_boundary_condition_second_kind(fv) ==
    SecondKindFrom([f |-> fv, written |-> {}, pos |-> 1], SecondKindLoops).f

\* the calls <<b, el, i, comp>> the two lambdas of boundary_condition_first_kind
\* go through, in order
FirstKindLoops ==
    Flatten([k \in DOMAIN boundary_nodes_run |->
        [c1 \in 1..dof |-> boundary_nodes_run[k] \o <<c1 - 1>>]])

\* mesh().node(k) as the first lambda calls it: a node of the mesh if k is the
\* number of one, whatever lies behind the node array otherwise
NodeLookup(k, junk) == IF k < mesh_nodes_count THEN mesh_node(k) ELSE junk

\* the first lambda: the vector x; s is the record [x, pos]
RECURSIVE BuildXFrom(_, _, _)
BuildXFrom(s, loops, junk) ==
    IF s.pos > Len(loops) THEN s.x
    ELSE LET b == loops[s.pos][1]
             comp == loops[s.pos][4]
             d == dof * node_number_1d(b, loops[s.pos][2], loops[s.pos][3]) + comp
         IN  BuildXFrom(
                 [x |-> IF type(b, comp) = "FIRST_KIND" /\ s.x[d] = 0
                        THEN [s.x EXCEPT ![d] = Apply(func(b, comp), NodeLookup(d, junk))]
                        ELSE s.x,
                  pos |-> s.pos + 1],
                 loops, junk)

\* the second lambda: the owned first-kind rows of f take the value of x;
\* s is the record [f, written, pos]
RECURSIVE OverwriteFrom(_, _, _)
OverwriteFrom(s, xv, loops) ==
    IF s.pos > Len(loops) THEN s
    ELSE LET b == loops[s.pos][1]
             comp == loops[s.pos][4]
             d == dof * node_number_1d(b, loops[s.pos][2], loops[s.pos][3]) + comp
         IN  OverwriteFrom(
                 [f |-> IF type(b, comp) = "FIRST_KIND" /\ Owned(d)
                        THEN [s.f EXCEPT ![d - dof * first_node] = xv[d]]
                        ELSE s.f,
                  written |-> IF type(b, comp) = "FIRST_KIND" /\ Owned(d)
                              THEN s.written \cup {d - dof * first_node}
                              ELSE s.written,
                  pos |-> s.pos + 1],
                 xv, loops)

\* f -= K_bound * x
SubtractBound(fv, K, xv) == [r \in DOMAIN fv |-> fv[r] - MatVecRow(K, xv, r)]

\* the routine with f -= K_bound * x after the second lambda instead of before
boundary_condition_first_kind_subtractLast(fv, K, junk) ==
    LET xv == BuildXFrom([x |-> [d \in 0..(Cols - 1) |-> 0], pos |-> 1], FirstKindLoops, junk)
    IN  <<SubtractBound(OverwriteFrom([f |-> fv, written |-> {}, pos |-> 1],
                                      xv, FirstKindLoops).f, K, xv), xv>>

\* boundary_condition_first_kind: <<f, x>> when it returns
boundary_condition_first_kind(fv, K, junk) ==
    LET xv == BuildXFrom([x |-> [d \in 0..(Cols - 1) |-> 0], pos |-> 1], FirstKindLoops, junk)
    IN  <<OverwriteFrom([f |-> SubtractBound(fv, K, xv), written |-> {}, pos |-> 1],
                        xv, FirstKindLoops).f, xv>>

\* integrate_function of the 2D solver: a quadrature node at each node of the
\* element, weight and jacobian 1; J advances with q, qcoord does not
integrate_function(e, i, fn2d) ==
    SumSeq([q1 \in 1..nodes_count_2d(e) |->
               (IF i = q1 - 1 THEN 1 ELSE 0) * Apply(fn2d, mesh_node(node_number(e, 0)))])

\* the iterations <<node, e, i, comp>> of the loops of integrate_right_part
RightPartLoops ==
    Flatten([n1 \in 1..(last_node - first_node) |->
        Flatten([m \in 1..Len(nodes_elements_map(first_node + n1 - 1)) |->
            [c1 \in 1..dof |->
                LET node == first_node + n1 - 1
                    e == nodes_elements_map(node)[m]
                IN  <<node, e,
                      CHOOSE j \in 0..(nodes_count_2d(e) - 1) : node_number(e, j) = node,
                      c1 - 1>>]])])

\* the loop body of integrate_right_part; s is the record [f, written, pos]
RECURSIVE RightPartFrom(_, _, _)
RightPartFrom(s, loops, right_partition) ==
    IF s.pos > Len(loops) THEN s
    ELSE LET node == loops[s.pos][1]
             comp == loops[s.pos][4]
         IN  RightPartFrom(
                 [f |-> [s.f EXCEPT ![dof * (node - first_node) + comp] =
                           @ + integrate_function(loops[s.pos][2], loops[s.pos][3],
                                                  right_partition[comp + 1])],
                  written |-> s.written \cup {dof * (node - first_node) + comp},
                  pos |-> s.pos + 1],
                 loops, right_partition)

\* integrate_right_part
integrate_right_part(fv, right_partition) ==
    RightPartFrom([f |-> fv, written |-> {}, pos |-> 1], RightPartLoops, right_partition).f

(***************************************************************************)
(* The boundary-condition routines of finite_element_solver_base_1d.  The  *)
(* two ends of the segment are b = 0 and b = 1; bound_cond[b] is the pair  *)
(* [first |-> kind, second |-> value]; K_bound[b] is a sequence of pairs   *)
(* <<i, val>>.                                                             *)
(***************************************************************************)
nodes_count_mesh_1d == elements_count + 1
fval(b) == IF b = 0 THEN 0 ELSE nodes_count_mesh_1d - 1

RECURSIVE AddPairsFrom(_, _, _, _)
AddPairsFrom(fv, pairs, value, k) ==
    IF k > Len(pairs) THEN fv
    ELSE AddPairsFrom([fv EXCEPT ![pairs[k][1]] = @ + pairs[k][2] * value],
                      pairs, value, k + 1)

RECURSIVE FirstKind1dFrom(_, _, _, _)
FirstKind1dFrom(fv, bound_cond, K, b) ==
    IF b >= 2 THEN fv
    ELSE FirstKind1dFrom(
             IF bound_cond[b + 1].first = "FIRST_KIND"
             THEN [AddPairsFrom(fv, K[b + 1], bound_cond[b + 1].second, 1)
                     EXCEPT ![fval(b)] = bound_cond[b + 1].second]
             ELSE fv,
             bound_cond, K, b + 1)

\* finite_element_solver_base_1d::boundary_condition_first_kind
boundary_condition_first_kind_1d(fv, bound_cond, K) == FirstKind1dFrom(fv, bound_cond, K, 0)

RECURSIVE SecondKind1dFrom(_, _, _)
SecondKind1dFrom(fv, bound_cond, b) ==
    IF b >= 2 THEN fv
    ELSE SecondKind1dFrom(
             IF bound_cond[b + 1].first = "SECOND_KIND"
             THEN [fv EXCEPT ![fval(b)] = @ + bound_cond[b + 1].second]
             ELSE fv,
             bound_cond, b + 1)

\* finite_element_solver_base_1d::boundary_condition_second_kind
boundary_condition_second_kind_1d(fv, bound_cond) == SecondKind1dFrom(fv, bound_cond, 0)

(***************************************************************************)
(* The right-hand side under the boundary conditions: second kind, then    *)
(* first kind, in 2D and in 1D.                                            *)
(***************************************************************************)
BoundaryTypes == {"FIRST_KIND", "SECOND_KIND"}

\* the ways to cut the boundary cycle of n elements into the groups: every
\* group a non-empty arc, the arcs in the order of the cycle
BoundaryGroupings(n) ==
    LET cuts == {g \in [1..n -> Groups] :
                    /\ \A k \in 1..(n - 1) : g[k] <= g[k + 1]
                    /\ \A b \in Groups : \E k \in 1..n : g[k] = b}
        element(k) == <<BoundaryCycle[k], BoundaryCycle[(k % n) + 1]>>
        arc(g, b) == SortedSeq({k \in 1..n : g[k] = b})
    IN  {[b1 \in 1..boundary_groups_count |->
            [e1 \in 1..Len(arc(g, b1 - 1)) |-> element(arc(g, b1 - 1)[e1])]] : g \in cuts}

\* the boundary conditions of one group for DoF = d: a kind for every component,
\* one boundary function shared by the components
BoundaryConditions(d) ==
    {[type |-> <<t0, t1>>, func |-> <<g, g>>] :
        t0 \in BoundaryTypes, g \in BoundaryFunctions,
        t1 \in IF d = 2 THEN BoundaryTypes ELSE {"SECOND_KIND"}}

IdleIndexer ==
    /\ theory = "LOCAL" /\ radius = 0
    /\ K_inner = <<>> /\ ind = <<>> /\ cur = <<>> /\ todo = {}
    /\ presort = <<>> /\ writes = <<>>
    /\ triplets = <<>> /\ triplets_bound = <<>>
    /\ temperature = <<>> /\ C_inner = <<>> /\ step = 0 /\ right_part = "zero"
    /\ sol_parameters = <<>>

InitBC2D ==
    /\ sys = "bc"
    /\ pc = "assembled"
    /\ dof \in {1, 2}
    /\ elements_count = MaxElems
    /\ \/ first_node = 0 /\ last_node = elements_count + 2
       \/ first_node = 1 /\ last_node = elements_count + 1
    /\ bgroup \in BoundaryGroupings(elements_count + 2)
    /\ bounds_cond \in [Groups -> BoundaryConditions(dof)]
    /\ inner_nodes = [d \in 0..(Cols - 1) |-> ~FirstKindDoF(d)]
    /\ K_bound = AssembledKBound
    /\ \E f0 \in {0, 1} : f = [r \in 0..(Rows - 1) |-> f0 * (r + 1)]
    /\ f_in = f
    /\ x = <<>>
    /\ IdleIndexer
    /\ IdleDriver

\* the inputs of the 1D routines: stationary() refuses two second-kind ends
\* whose values sum to more than the tolerance
InitBC1D ==
    /\ sys = "bc1d"
    /\ pc = "assembled"
    /\ dof = 1
    /\ elements_count \in 2..(MaxElems + 1)
    /\ first_node = 0 /\ last_node = elements_count + 1
    /\ bgroup = <<>>
    /\ bounds_cond \in [1..2 -> [first : BoundaryTypes, second : {0 - 1, 0, 2}]]
    /\ ~(/\ \A b \in 1..2 : bounds_cond[b].first = "SECOND_KIND"
         /\ bounds_cond[1].second + bounds_cond[2].second > 0)
    /\ inner_nodes = [d \in 0..elements_count |->
                        ~(\/ d = 0 /\ bounds_cond[1].first = "FIRST_KIND"
                          \/ d = elements_count /\ bounds_cond[2].first = "FIRST_KIND")]
    /\ K_bound \in {<<a, b>> : a \in {<<>>, <<<<1, 2>>>>},
                               b \in {<<>>, <<<<elements_count - 1, 3>>>>}}
    /\ LET neumann_task == \A b \in 1..2 : bounds_cond[b].first = "SECOND_KIND"
           size == nodes_count_mesh_1d + (IF neumann_task THEN 1 ELSE 0)
       IN  \E f0 \in {0, 1} :
              f = [i \in 0..(size - 1) |-> IF i < nodes_count_mesh_1d THEN f0 * (i + 1) ELSE 0]
    /\ f_in = f
    /\ x = <<>>
    /\ IdleIndexer
    /\ IdleDriver

InitBC == InitBC2D \/ InitBC1D

FrameBC == UNCHANGED <<sys, idxvars, bgroup, bounds_cond, elvars, s1dvars, drvvars>>

\* integrate_boundary_condition_second_kind(f, bounds_cond)
IntegrateBoundaryConditionSecondKind ==
    /\ sys = "bc" /\ pc = "assembled"
    /\ f_in' = f
    /\ f' = integrate_boundary_condition_second_kind(f)
    /\ pc' = "second_done"
    /\ UNCHANGED x
    /\ FrameBC

\* integrate_right_part(f, right_part)
IntegrateRightPart ==
    /\ sys = "bc" /\ pc = "assembled"
    /\ f_in' = f
    /\ \E fn2d \in BoundaryFunctions :
          /\ f' = integrate_right_part(f, [c1 \in 1..dof |-> fn2d])
          /\ right_part' = fn2d
    /\ pc' = "right_part_done"
    /\ UNCHANGED <<x, temperature, C_inner, step, sol_parameters>>
    /\ UNCHANGED <<sys, idxvars, bgroup, bounds_cond, elvars, drvvars>>

\* boundary_condition_first_kind(f, bounds_cond, K_bound); a caller may apply
\* the step to its own result once more
BoundaryConditionFirstKind ==
    /\ sys = "bc" /\ pc \in {"second_done", "done"}
    /\ \E junk \in OutOfRangeReads :
          LET res == boundary_condition_first_kind(f, K_bound, junk)
          IN  f' = res[1] /\ x' = res[2]
    /\ f_in' = f
    /\ pc' = IF pc = "second_done" THEN "done" ELSE "twice"
    /\ FrameBC

\* boundary_condition_second_kind(f, bound_cond) of the 1D solver
BoundaryConditionSecondKind1d ==
    /\ sys = "bc1d" /\ pc = "assembled"
    /\ f_in' = f
    /\ f' = boundary_condition_second_kind_1d(f, bounds_cond)
    /\ pc' = "second_done"
    /\ UNCHANGED x
    /\ FrameBC

\* boundary_condition_first_kind(f, bound_cond, K_bound) of the 1D solver; a
\* caller may apply the step to its own result once more
BoundaryConditionFirstKind1d ==
    /\ sys = "bc1d" /\ pc \in {"second_done", "done"}
    /\ f_in' = f
    /\ f' = boundary_condition_first_kind_1d(f, bounds_cond, K_bound)
    /\ pc' = IF pc = "second_done" THEN "done" ELSE "twice"
    /\ UNCHANGED x
    /\ FrameBC

NextBC ==
    \/ IntegrateRightPart
    \/ IntegrateBoundaryConditionSecondKind
    \/ BoundaryConditionFirstKind
    \/ BoundaryConditionSecondKind1d
    \/ BoundaryConditionFirstKind1d

SpecBC == InitBC /\ [][NextBC]_vars

(***************************************************************************)
(* Properties of the boundary-condition routines.                          *)
(***************************************************************************)
\* the sum of val * value over the pairs <<i, val>> of one end that name row i
PairsSum(pairs, i, value) ==
    SumSeq([k \in 1..Len(pairs) |-> IF pairs[k][1] = i THEN pairs[k][2] * value ELSE 0])

FirstGroup(d) == CHOOSE b \in FirstKindGroups(d) : \A b2 \in FirstKindGroups(d) : b <= b2

\* C8: for DoF = 1, where the DoF index is the node number, x[n] of a node of
\* several first-kind groups is the value of the lowest-indexed of them, also
\* when that value is 0.
C8_FirstGroupWins ==
    (sys = "bc" /\ pc = "done" /\ dof = 1) =>
        \A d \in 0..(Cols - 1) :
            FirstKindDoF(d) => x[d] = Apply(func(FirstGroup(d), 0), mesh_node(d))

\* C9: x[DoF*n + c] of a first-kind DoF is the boundary function of one of its
\* first-kind groups at the coordinates of node n.
C9_ValueAtNodeCoordinates ==
    (sys = "bc" /\ pc = "done") =>
        \A d \in 0..(Cols - 1) :
            FirstKindDoF(d) =>
                \E b \in FirstKindGroups(d) :
                    x[d] = Apply(func(b, d % dof), mesh_node(d \div dof))

\* C10: after the second-kind integrals and then the first-kind routine, every
\* owned first-kind row r of f holds x[r].
C10_FirstKindDominates ==
    (sys = "bc" /\ pc = "done") =>
        \A d \in 0..(Cols - 1) :
            (Owned(d) /\ FirstKindDoF(d)) => f[d - dof * first_node] = x[d]

\* an owned first-kind row whose node also lies on a second-kind group with a
\* non-zero boundary integral, with a non-zero K_bound * x, overwritten
C10_Witness ==
    /\ sys = "bc" /\ pc = "done"
    /\ \E d \in 0..(Cols - 1) :
          /\ Owned(d) /\ FirstKindDoF(d)
          /\ \E b \in Groups :
                /\ type(b, d % dof) = "SECOND_KIND"
                /\ func(b, d % dof) = "coord"
                /\ \E el \in 0..(elements_count_1d(b) - 1), i \in 0..1 :
                      node_number_1d(b, el, i) = d \div dof
          /\ MatVecRow(K_bound, x, d - dof * first_node) # 0
          /\ f[d - dof * first_node]
                # f_in[d - dof * first_node] - MatVecRow(K_bound, x, d - dof * first_node)

\* C11: the first-kind step applied a second time, to the f the first
\* application returned and the same K_bound and boundary conditions, returns
\* that f unchanged, in 2D and in 1D (the step has no access to K_inner).
C11_TwiceIsOnce ==
    (sys \in {"bc", "bc1d"} /\ pc = "twice") => f = f_in

(***************************************************************************)
(* The elasticity assembly of static_analysis.cpp: mesh_analysis counts    *)
(* the triplets of every element, triplets_fill writes them, create_matrix *)
(* builds K and K_bound from them.  A triplet is <<row, col, value>>; a    *)
(* matrix built from triplets is the function from its stored (row, col)   *)
(* to the sum of the values given for it.  Every element writes its own    *)
(* range of the triplet arrays, so the parallel loops are run in order.    *)
(***************************************************************************)
\* the (row, col) the four calls per (i, j) of an element pair go through:
\* call k of 36 has i = k / 12, j = (k / 4) % 3, projection (k / 2) % 2, form k % 2
ElementCalls(elL, elNL) ==
    [k1 \in 1..36 |->
        <<2 * node_number(elL, (k1 - 1) \div 12) + (((k1 - 1) \div 2) % 2),
          2 * node_number(elNL, ((k1 - 1) \div 4) % 3) + ((k1 - 1) % 2)>>]

\* mesh_run_loc and mesh_run_nonloc for one element
LocCalls(el) == ElementCalls(el, el)
NonlocCalls(elL) ==
    Flatten([m \in 1..Len(neighbors(elL)) |-> ElementCalls(elL, neighbors(elL)[m])])

\* both DoFs interior and the diagonal taken along: the first branch widened
routes_inner_withDiagonal(row, col) ==
    (inner_nodes[row] /\ inner_nodes[col]) \/ row = col

\* the first branch of the counters and of the fillers
routes_inner(row, col) == inner_nodes[row] /\ inner_nodes[col]

CountInner(calls) ==
    Cardinality({k \in DOMAIN calls :
        calls[k][1] >= calls[k][2] /\ routes_inner(calls[k][1], calls[k][2])})
CountBound(calls) ==
    Cardinality({k \in DOMAIN calls :
        /\ calls[k][1] >= calls[k][2]
        /\ ~routes_inner(calls[k][1], calls[k][2])
        /\ calls[k][1] # calls[k][2]})

\* mesh_analysis with shifts_loc[0] left at zero
mesh_analysis_zeroBase(nonlocal) ==
    LET E == elements_count
        ci == [e1 \in 1..E |-> CountInner(LocCalls(e1 - 1))]
        cb == [e1 \in 1..E |-> CountBound(LocCalls(e1 - 1))]
        ni == [e1 \in 1..E |-> IF nonlocal THEN CountInner(NonlocCalls(e1 - 1)) ELSE 0]
        nb == [e1 \in 1..E |-> IF nonlocal THEN CountBound(NonlocCalls(e1 - 1)) ELSE 0]
    IN  [shifts_loc          |-> [e \in 0..E |-> SumSeq(SubSeq(ci, 1, e))],
         shifts_bound_loc    |-> [e \in 0..E |-> SumSeq(SubSeq(cb, 1, e))],
         shifts_nonloc       |-> [e \in 0..E |-> SumSeq(ci) + SumSeq(SubSeq(ni, 1, e))],
         shifts_bound_nonloc |-> [e \in 0..E |-> SumSeq(cb) + SumSeq(SubSeq(nb, 1, e))]]

\* mesh_analysis: the first slot of every element in the two triplet arrays
mesh_analysis(nonlocal) ==
    LET E == elements_count
        ci == [e1 \in 1..E |-> CountInner(LocCalls(e1 - 1))]
        cb == [e1 \in 1..E |-> CountBound(LocCalls(e1 - 1))]
        ni == [e1 \in 1..E |-> IF nonlocal THEN CountInner(NonlocCalls(e1 - 1)) ELSE 0]
        nb == [e1 \in 1..E |-> IF nonlocal THEN CountBound(NonlocCalls(e1 - 1)) ELSE 0]
        fixed == Cardinality({d \in DOMAIN inner_nodes : ~inner_nodes[d]})
    IN  [shifts_loc          |-> [e \in 0..E |-> fixed + SumSeq(SubSeq(ci, 1, e))],
         shifts_bound_loc    |-> [e \in 0..E |-> SumSeq(SubSeq(cb, 1, e))],
         shifts_nonloc       |-> [e \in 0..E |-> fixed + SumSeq(ci) + SumSeq(SubSeq(ni, 1, e))],
         shifts_bound_nonloc |-> [e \in 0..E |-> SumSeq(cb) + SumSeq(SubSeq(nb, 1, e))]]

\* the integrals, p1 and p2 included
IntegralLoc(row, col) == 2 + ((row + col) % 3)
IntegralNonloc(row, col) == 5 + ((row + 2 * col) % 3)

\* a filler that keeps the pairs with row <= col
filler_upper(t, row, col, nonloc) ==
    IF row <= col /\ routes_inner(row, col)
    THEN [t EXCEPT !.triplets[t.shift + 1] = <<row, col, IntegralLoc(row, col)>>,
                   !.shift = @ + 1]
    ELSE t

\* filler_loc / filler_nonloc, one call; t is the record [triplets,
\* triplets_bound, shift, shift_bound, pos], shift and shift_bound being the
\* element's entries of the shifts arrays.  History: t.writers and
\* t.writers_bound hold for every slot the <<element, nonloc>> that wrote it,
\* t.overrun whether a write went behind the end of its array
filler(t, row, col, nonloc) ==
    IF row >= col
    THEN IF routes_inner(row, col)
         THEN [t EXCEPT !.triplets[t.shift + 1] =
                            <<row, col, IF nonloc THEN IntegralNonloc(row, col)
                                                  ELSE IntegralLoc(row, col)>>,
                        !.shift = @ + 1,
                        !.writers[t.shift + 1] = Append(@, <<t.el, nonloc>>),
                        !.overrun = @ \/ t.shift + 1 > Len(t.triplets)]
         ELSE IF row # col
              THEN [t EXCEPT !.triplets_bound[t.shift_bound + 1] =
                                 IF inner_nodes[col]
                                 THEN <<col, row, IF nonloc THEN IntegralNonloc(row, col)
                                                            ELSE IntegralLoc(row, col)>>
                                 ELSE <<row, col, IF nonloc THEN IntegralNonloc(row, col)
                                                            ELSE IntegralLoc(row, col)>>,
                             !.shift_bound = @ + 1,
                             !.writers_bound[t.shift_bound + 1] = Append(@, <<t.el, nonloc>>),
                             !.overrun = @ \/ t.shift_bound + 1 > Len(t.triplets_bound)]
              ELSE t
    ELSE t

\* the rule given to mesh_run_loc / mesh_run_nonloc: the four calls of the
\* filler, (X, X), (X, Y), (Y, X), (Y, Y)
rule(t, i, j, elL, elNL, nonloc) ==
    LET r == 2 * node_number(elL, i)
        c == 2 * node_number(elNL, j)
    IN  filler(filler(filler(filler(t, r, c, nonloc), r, c + 1, nonloc),
                      r + 1, c, nonloc),
               r + 1, c + 1, nonloc)

\* the loops over i and j for one pair of elements; t.pos = nodes_count * i + j
RECURSIVE FillerFrom(_, _, _, _)
FillerFrom(t, elL, elNL, nonloc) ==
    IF t.pos >= nodes_count_2d(elL) * nodes_count_2d(elNL) THEN t
    ELSE FillerFrom([rule(t, t.pos \div nodes_count_2d(elNL), t.pos % nodes_count_2d(elNL),
                          elL, elNL, nonloc)
                        EXCEPT !.pos = @ + 1],
                    elL, elNL, nonloc)

\* the loop over the neighbours of elL in mesh_run_nonloc; t.m is the position
\* in element_neighbors(elL)
RECURSIVE NeighborsFrom(_, _)
NeighborsFrom(t, elL) ==
    IF t.m > Len(neighbors(elL)) THEN t
    ELSE NeighborsFrom([FillerFrom([t EXCEPT !.pos = 0], elL, neighbors(elL)[t.m], TRUE)
                           EXCEPT !.m = @ + 1],
                       elL)

\* the loop over the elements of mesh_run_loc / mesh_run_nonloc with a filler;
\* t.el is the element
RECURSIVE FillElementsFrom(_, _, _, _)
FillElementsFrom(t, shifts, shifts_bound, nonloc) ==
    IF t.el >= elements_count THEN t
    ELSE FillElementsFrom(
             [(IF nonloc
               THEN NeighborsFrom([t EXCEPT !.shift = shifts[t.el],
                                            !.shift_bound = shifts_bound[t.el],
                                            !.m = 1], t.el)
               ELSE FillerFrom([t EXCEPT !.shift = shifts[t.el],
                                         !.shift_bound = shifts_bound[t.el],
                                         !.pos = 0], t.el, t.el, FALSE))
                 EXCEPT !.el = @ + 1],
             shifts, shifts_bound, nonloc)

\* the loop that gives every first-kind DoF i the triplet (i, i, 1.)
RECURSIVE DiagonalFrom(_, _, _)
DiagonalFrom(tr, i, j) ==
    IF i >= 2 * mesh_nodes_count THEN tr
    ELSE IF ~inner_nodes[i]
         THEN DiagonalFrom([tr EXCEPT ![j + 1] = <<i, i, 1>>], i + 1, j + 1)
         ELSE DiagonalFrom(tr, i + 1, j)

\* history of that loop: it writes the slots j = 0, 1, ... one after the other,
\* one per first-kind DoF; its writer is <<-1, FALSE>>
DiagonalWriters(slots) ==
    [k \in 1..slots |->
        IF k <= Cardinality({d \in DOMAIN inner_nodes : ~inner_nodes[d]})
        THEN <<<<0 - 1, FALSE>>>> ELSE <<>>]

\* triplets_fill: <<triplets, triplets_bound, history of the writes>>
triplets_fill(nonlocal) ==
    LET sh == mesh_analysis(nonlocal)
        size == IF nonlocal THEN sh.shifts_nonloc[elements_count]
                            ELSE sh.shifts_loc[elements_count]
        size_bound == IF nonlocal THEN sh.shifts_bound_nonloc[elements_count]
                                  ELSE sh.shifts_bound_loc[elements_count]
        t0 == [triplets       |-> DiagonalFrom([k \in 1..size |-> <<0, 0, 0>>] \o <<>>, 0, 0),
               triplets_bound |-> [k \in 1..size_bound |-> <<0, 0, 0>>] \o <<>>,
               shift |-> 0, shift_bound |-> 0, el |-> 0, m |-> 1, pos |-> 0,
               writers |-> DiagonalWriters(size),
               writers_bound |-> [k \in 1..size_bound |-> <<>>],
               overrun |-> Cardinality({d \in DOMAIN inner_nodes : ~inner_nodes[d]}) > size]
        t1 == FillElementsFrom(t0, sh.shifts_loc, sh.shifts_bound_loc, FALSE)
        t2 == IF nonlocal
              THEN FillElementsFrom([t1 EXCEPT !.el = 0],
                                    sh.shifts_nonloc, sh.shifts_bound_nonloc, TRUE)
              ELSE t1
    IN  <<t2.triplets, t2.triplets_bound,
          [inner |-> t2.writers, bound |-> t2.writers_bound, overrun |-> t2.overrun]>>

\* the sum of the values of the triplets at the positions ks
RECURSIVE SumTriplets(_, _)
SumTriplets(tr, ks) ==
    IF ks = {} THEN 0
    ELSE LET k == CHOOSE i \in ks : TRUE
         IN  tr[k][3] + SumTriplets(tr, ks \ {k})

\* Eigen's setFromTriplets: the values given for one (row, col) are summed
setFromTriplets(tr) ==
    [e \in {<<tr[k][1], tr[k][2]>> : k \in DOMAIN tr} |->
        SumTriplets(tr, {k \in DOMAIN tr : <<tr[k][1], tr[k][2]>> = e})]

InitEl ==
    /\ sys = "el"
    /\ pc = "start"
    /\ dof = 2
    /\ theory \in {"LOCAL", "NONLOCAL"}
    /\ elements_count \in 1..MaxElems
    /\ radius \in 0..elements_count
    /\ radius <= 1 \/ radius < elements_count
    /\ theory = "LOCAL" => radius = 0
    /\ theory = "NONLOCAL" => radius >= 1
    /\ first_node = 0 /\ last_node = elements_count + 2
    /\ \E fk \in FirstKindSets(elements_count + 2, dof) :
           inner_nodes = [d \in 0..(dof * (elements_count + 2) - 1) |-> d \notin fk]
    /\ K_inner = <<>> /\ K_bound = <<>>
    /\ ind = <<>> /\ cur = <<>> /\ todo = {} /\ presort = <<>> /\ writes = <<>>
    /\ bgroup = <<>> /\ bounds_cond = <<>> /\ f = <<>> /\ x = <<>> /\ f_in = <<>>
    /\ triplets = <<>> /\ triplets_bound = <<>>
    /\ temperature = <<>> /\ C_inner = <<>> /\ step = 0 /\ right_part = "zero"
    /\ sol_parameters = <<>>
    /\ IdleDriver

FrameEl == UNCHANGED <<sys, dof, theory, elements_count, radius, first_node, last_node,
                       inner_nodes, ind, cur, todo, presort, writes, bcvars, s1dvars, drvvars>>

\* triplets_fill, as create_matrix calls it
TripletsFill ==
    /\ sys = "el" /\ pc = "start"
    /\ LET res == triplets_fill(theory = "NONLOCAL")
       IN  triplets' = res[1] /\ triplets_bound' = res[2] /\ writes' = res[3]
    /\ pc' = "filled"
    /\ UNCHANGED <<K_inner, K_bound>>
    /\ UNCHANGED <<sys, dof, theory, elements_count, radius, first_node, last_node,
                   inner_nodes, ind, cur, todo, presort, bcvars, s1dvars, drvvars>>

\* the rest of create_matrix: K_bound and K from the triplets
SetFromTriplets ==
    /\ sys = "el" /\ pc = "filled"
    /\ K_bound' = setFromTriplets(triplets_bound)
    /\ K_inner' = setFromTriplets(triplets)
    /\ triplets_bound' = <<>>
    /\ pc' = "assembled"
    /\ UNCHANGED triplets
    /\ FrameEl

NextEl == TripletsFill \/ SetFromTriplets

(***************************************************************************)
(* The boundary conditions of the elasticity problem: every group carries  *)
(* a type and a function for each of the two components.                   *)
(***************************************************************************)
ElasticityTypes == {"TRANSLATION", "PRESSURE"}

ElasticityConditions ==
    {[type_x |-> tx, type_y |-> ty, func_x |-> g, func_y |-> g] :
        tx \in ElasticityTypes, ty \in ElasticityTypes, g \in BoundaryFunctions}

\* bounds_cond[b].type_x or .type_y, and .func_x or .func_y, by component
type_xy(b, comp) == IF comp = 0 THEN bounds_cond[b].type_x ELSE bounds_cond[b].type_y
func_xy(b, comp) == IF comp = 0 THEN bounds_cond[b].func_x ELSE bounds_cond[b].func_y

\* mesh.boundary(b).cbegin() .. cend(): the node numbers of the elements of
\* group b, element after element
mesh_boundary(b) ==
    Flatten([e1 \in 1..elements_count_1d(b) |->
                <<node_number_1d(b, e1 - 1, 0), node_number_1d(b, e1 - 1, 1)>>])

\* inner_nodes_vector: a DoF is no inner one once a group that is a
\* TRANSLATION in its component holds its node
inner_nodes_vector ==
    [d \in 0..(2 * mesh_nodes_count - 1) |->
        ~(\E b \in Groups :
             /\ type_xy(b, d % 2) = "TRANSLATION"
             /\ \E k \in DOMAIN mesh_boundary(b) : mesh_boundary(b)[k] = d \div 2)]

\* the loops of kinematic_nodes_vectors from node k of group b on: a node goes
\* to the list of b unless the list of some group holds it already
RECURSIVE KinematicFrom(_, _, _)
KinematicFrom(kinematic_nodes, b, k) ==
    IF b >= boundary_groups_count THEN kinematic_nodes
    ELSE IF \/ ~(\/ type_xy(b, 0) = "TRANSLATION"
                 \/ type_xy(b, 1) = "TRANSLATION")
            \/ k > Len(mesh_boundary(b))
         THEN KinematicFrom(kinematic_nodes, b + 1, 1)
         ELSE LET node == mesh_boundary(b)[k]
                  found == \E g \in DOMAIN kinematic_nodes :
                              \E m \in DOMAIN kinematic_nodes[g] :
                                 kinematic_nodes[g][m] = node
              IN  KinematicFrom(IF found THEN kinematic_nodes
                                ELSE [kinematic_nodes EXCEPT ![b + 1] = Append(@, node)],
                                b, k + 1)

kinematic_nodes_vectors ==
    KinematicFrom([b1 \in 1..boundary_groups_count |-> <<>>], 0, 1)

\* the iterations <<b, comp, el, i>> of the first loop of
\* boundary_condition_calc, in order
PressureLoops ==
    Flatten([b1 \in 1..boundary_groups_count |->
        Flatten([c1 \in 1..2 |->
            Flatten([e1 \in 1..elements_count_1d(b1 - 1) |->
                [i1 \in 1..nodes_count_1d |-> <<b1 - 1, c1 - 1, e1 - 1, i1 - 1>>]])])])

\* the iterations <<b, comp, node>> of its second and of its third loop
TranslationLoops(temperature_nodes) ==
    Flatten([b1 \in 1..Len(temperature_nodes) |->
        Flatten([c1 \in 1..2 |->
            [m \in 1..Len(temperature_nodes[b1]) |->
                <<b1 - 1, c1 - 1, temperature_nodes[b1][m]>>]])])

\* the first loop: the PRESSURE components add their boundary integrals
RECURSIVE PressureFrom(_, _, _)
PressureFrom(fv, loops, pos) ==
    IF pos > Len(loops) THEN fv
    ELSE LET b == loops[pos][1]
             comp == loops[pos][2]
             d == 2 * node_number_1d(b, loops[pos][3], loops[pos][4]) + comp
         IN  PressureFrom(
                 IF type_xy(b, comp) = "PRESSURE"
                 THEN [fv EXCEPT ![d] = @ + integrate_boundary_gradient(
                                              b, loops[pos][3], loops[pos][4], func_xy(b, comp))]
                 ELSE fv,
                 loops, pos + 1)

\* the second loop: the column of K_bound of every listed TRANSLATION DoF,
\* times its prescribed value, leaves f
RECURSIVE SubtractColumnsFrom(_, _, _, _)
SubtractColumnsFrom(fv, K, loops, pos) ==
    IF pos > Len(loops) THEN fv
    ELSE LET b == loops[pos][1]
             comp == loops[pos][2]
             col == 2 * loops[pos][3] + comp
             temp == Apply(func_xy(b, comp), mesh_node(loops[pos][3]))
         IN  SubtractColumnsFrom(
                 IF type_xy(b, comp) = "TRANSLATION"
                 THEN [r \in DOMAIN fv |->
                          fv[r] - (IF <<r, col>> \in DOMAIN K THEN temp * K[<<r, col>>] ELSE 0)]
                 ELSE fv,
                 K, loops, pos + 1)

\* the third loop: the listed TRANSLATION DoFs take their prescribed value;
\* s is the record [f, written], written holding the <<DoF, group>> so far
RECURSIVE PrescribeFrom(_, _, _)
PrescribeFrom(s, loops, pos) ==
    IF pos > Len(loops) THEN s
    ELSE LET b == loops[pos][1]
             comp == loops[pos][2]
             d == 2 * loops[pos][3] + comp
         IN  PrescribeFrom(
                 IF type_xy(b, comp) = "TRANSLATION"
                 THEN [f |-> [s.f EXCEPT ![d] = Apply(func_xy(b, comp),
                                                      mesh_node(loops[pos][3]))],
                       written |-> s.written \cup {<<d, b>>}]
                 ELSE s,
                 loops, pos + 1)

\* boundary_condition_calc(mesh, temperature_nodes, bounds_cond, K_bound, f)
boundary_condition_calc(temperature_nodes, K, fv) ==
    LET loops == TranslationLoops(temperature_nodes)
    IN  PrescribeFrom(
            [f |-> SubtractColumnsFrom(PressureFrom(fv, PressureLoops, 1), K, loops, 1),
             written |-> {}],
            loops, 1)

\* the elasticity problem of a list of boundary conditions, before
\* create_matrix
InitElBC ==
    /\ sys = "el"
    /\ pc = "start"
    /\ dof = 2
    /\ theory = "LOCAL" /\ radius = 0
    /\ elements_count = MaxElems
    /\ first_node = 0 /\ last_node = elements_count + 2
    /\ bgroup \in BoundaryGroupings(elements_count + 2)
    /\ bounds_cond \in [Groups -> ElasticityConditions]
    /\ inner_nodes = inner_nodes_vector
    /\ K_inner = <<>> /\ K_bound = <<>>
    /\ triplets = <<>> /\ triplets_bound = <<>>
    /\ \E f0 \in {0, 1} : f = [d \in 0..(2 * mesh_nodes_count - 1) |-> f0 * (d + 1)]
    /\ f_in = f
    /\ x = <<>>
    /\ ind = <<>> /\ cur = <<>> /\ todo = {} /\ presort = <<>> /\ writes = <<>>
    /\ temperature = <<>> /\ C_inner = <<>> /\ step = 0 /\ right_part = "zero"
    /\ sol_parameters = <<>>
    /\ IdleDriver

\* boundary_condition_calc(mesh, kinematic_nodes_vectors(mesh, bounds_cond),
\* bounds_cond, K_bound, f)
BoundaryConditionCalc ==
    /\ sys = "el" /\ pc = "assembled" /\ bounds_cond # <<>>
    /\ f_in' = f
    /\ LET res == boundary_condition_calc(kinematic_nodes_vectors, K_bound, f)
       IN  f' = res.f /\ writes' = res.written
    /\ pc' = "done"
    /\ UNCHANGED <<sys, dof, theory, elements_count, radius, first_node, last_node,
                   inner_nodes, K_inner, K_bound, ind, cur, todo, presort>>
    /\ UNCHANGED <<bgroup, bounds_cond, x, elvars, s1dvars, drvvars>>

\* create_matrix, then boundary_condition_calc
NextElBC == TripletsFill \/ SetFromTriplets \/ BoundaryConditionCalc

SpecElBC == InitElBC /\ [][NextElBC]_vars

\* C28: once boundary_condition_calc has returned, every DoF that
\* inner_nodes_vector marks as non-interior was overwritten with, and holds,
\* the prescribed displacement of a group that is a TRANSLATION in its
\* component
C28_PrescribedValues ==
    (sys = "el" /\ pc = "done") =>
        \A d \in DOMAIN inner_nodes :
            ~inner_nodes[d] =>
                \E b \in Groups :
                    /\ type_xy(b, d % 2) = "TRANSLATION"
                    /\ <<d, b>> \in writes
                    /\ f[d] = Apply(func_xy(b, d % 2), mesh_node(d \div 2))

(***************************************************************************)
(* Assembly: the indexer of the solver base and the elasticity assembly.   *)
(***************************************************************************)
InitAssembly == InitIdx \/ InitEl
NextAssembly == NextIdx \/ NextEl
SpecAssembly == InitAssembly /\ [][NextAssembly]_vars

\* the pairs (row, col), row >= col, the fillers of the elasticity assembly visit
VisitedPairs ==
    LET calls == Flatten([e1 \in 1..elements_count |->
                     IF theory = "NONLOCAL" THEN NonlocCalls(e1 - 1) ELSE LocCalls(e1 - 1)])
    IN  {calls[k] : k \in {j \in DOMAIN calls : calls[j][1] >= calls[j][2]}}

\* C3: after assembly, for every first-kind DoF d, K_inner holds the diagonal
\* (d, d) and nothing else in row d or column d, and every coupling of d that
\* is stored is stored in K_bound, in a first-kind column.  In the indexer
\* this is the pattern of the owned rows after both passes; in the elasticity
\* assembly it is the matrices built from the triplets, where the diagonal
\* entry moreover has the value 1.
C3_DirichletIdentityRows ==
    /\ (sys = "idx" /\ pc = "sorted") =>
          \A r \in LocalRows :
              LET g == r + dof * first_node
              IN  /\ ~inner_nodes[g] => StoredCols("inner", r) = {g}
                  /\ \A c \in StoredCols("inner", r) : ~inner_nodes[c] => c = g
                  /\ \A c \in StoredCols("bound", r) : ~inner_nodes[c] /\ c # g
                  /\ \A c \in Reached(g) :
                        (~inner_nodes[c] /\ c # g) => c \in StoredCols("bound", r)
    /\ (sys = "el" /\ pc = "assembled") =>
          /\ \A d \in DOMAIN inner_nodes :
                ~inner_nodes[d] =>
                    /\ <<d, d>> \in DOMAIN K_inner
                    /\ K_inner[<<d, d>>] = 1
                    /\ \A e \in DOMAIN K_inner : (e[1] = d \/ e[2] = d) => e = <<d, d>>
          /\ \A e \in DOMAIN K_bound : ~inner_nodes[e[2]] /\ e[1] # e[2]
          /\ \A p \in VisitedPairs :
                (p[1] # p[2] /\ ~(inner_nodes[p[1]] /\ inner_nodes[p[2]])) =>
                    /\ p \notin DOMAIN K_inner
                    /\ IF inner_nodes[p[2]] THEN <<p[2], p[1]>> \in DOMAIN K_bound
                                            ELSE p \in DOMAIN K_bound

\* the indexer has finished on a mesh with a first-kind DoF in an owned row that
\* the traversal couples to interior and to first-kind DoFs, and an interior
\* owned row that holds a coupling to a first-kind DoF in K_bound
C3_Witness ==
    /\ sys = "idx" /\ pc = "sorted" /\ dof = 2
    /\ \E r \in LocalRows :
          LET g == r + dof * first_node
          IN  /\ ~inner_nodes[g]
              /\ StoredCols("inner", r) = {g}
              /\ \E c \in Reached(g) : inner_nodes[c]
              /\ StoredCols("bound", r) # {}
    /\ \E r \in LocalRows :
          inner_nodes[r + dof * first_node] /\ StoredCols("bound", r) # {}

(***************************************************************************)
(* The 1D solver of finite_element_solver_base_1d.hpp: stationary() and    *)
(* nonstationary().  The boundary values are integers in the unit 1e-6, so *)
(* the tolerance 1e-5 of stationary() is 10.  The mesh is a segment of     *)
(* elements_count linear elements; the solve of the linear system is       *)
(* Eigen's and is kept symbolic.                                           *)
(***************************************************************************)
Tolerance == 10
FluxValues == {0 - 20, 0, 4, 10}

\* mesh()->element()->nodes_count(), mesh()->node_number(e, i)
element_nodes_count == 2
node_number_mesh_1d(e, i) == e * (element_nodes_count - 1) + i

\* mesh()->node_elements(node).arr without the entries of no element
node_elements(node) ==
    (IF node > 0 THEN <<<<node - 1, 1>>>> ELSE <<>>)
        \o (IF node < elements_count THEN <<<<node, 0>>>> ELSE <<>>)

\* mesh()->left_neighbour(e) and mesh()->right_neighbour(e): the elements
\* within the radius are left_neighbour(e) .. right_neighbour(e) - 1
left_neighbour(e) == IF e - radius < 0 THEN 0 ELSE e - radius
right_neighbour(e) ==
    IF e + radius + 1 > elements_count THEN elements_count ELSE e + radius + 1

\* stationary(): the locals neumann_task, nonlocal_task and size
neumann_task ==
    bounds_cond[1].first = "SECOND_KIND" /\ bounds_cond[2].first = "SECOND_KIND"
nonlocal_task == theory = "NONLOCAL"
size == nodes_count_mesh_1d + (IF neumann_task THEN 1 ELSE 0)

\* Eigen::SparseMatrix<T, RowMajor> K(n, n) as constructed: no entries
EmptyMatrix(n) == [outer |-> [i \in 0..n |-> 0], inner |-> <<>>, value |-> <<>>]

\* K.rows()
MatrixRows(K) == Cardinality(DOMAIN K.outer) - 1

\* the columns stored in row r of K, in the order of storage
RowColumns(K, r) == [k \in 1..(K.outer[r + 1] - K.outer[r]) |-> K.inner[K.outer[r] + k]]

\* the array boundary_first_kind of create_matrix, indexed 1 (front) and 2 (back)
boundary_first_kind == [b \in 1..2 |-> bounds_cond[b].first = "FIRST_KIND"]

\* create_matrix_portrait, the loop over e and i: the number of entries of row
\* `row - 1` goes to outerIndexPtr()[row]; s is the record [outer, pos] with
\* pos = nodes_count * e + i
RECURSIVE PortraitWidthsFrom(_, _)
PortraitWidthsFrom(s, nonlocal) ==
    IF s.pos >= element_nodes_count * elements_count THEN s.outer
    ELSE LET e == s.pos \div element_nodes_count
             i == s.pos % element_nodes_count
             rn == IF nonlocal THEN right_neighbour(e) ELSE e + 1
             row == e * (element_nodes_count - 1) + i + 1
             last_node_first_kind ==
                 IF /\ boundary_first_kind[2]
                    /\ rn * (element_nodes_count - 1) = nodes_count_mesh_1d - 1
                 THEN 1 ELSE 0
         IN  PortraitWidthsFrom(
                 [outer |-> [s.outer EXCEPT ![row] =
                               IF \/ boundary_first_kind[1] /\ row = 1
                                  \/ boundary_first_kind[2] /\ row = nodes_count_mesh_1d
                               THEN 1
                               ELSE (rn - e) * (element_nodes_count - 1) - i + 1
                                       - last_node_first_kind],
                  pos |-> s.pos + 1],
                 nonlocal)

\* prepare_memory of the 1D solver: s is the record [outer, pos]
RECURSIVE PrefixFrom1d(_, _)
PrefixFrom1d(s, rows) ==
    IF s.pos >= rows THEN s.outer
    ELSE PrefixFrom1d([outer |-> [s.outer EXCEPT ![s.pos + 1] = @ + s.outer[s.pos]],
                       pos |-> s.pos + 1], rows)

prepare_memory_1d(K) ==
    LET outer == PrefixFrom1d([outer |-> K.outer, pos |-> 0], MatrixRows(K))
    IN  [outer |-> outer,
         inner |-> [k \in 1..outer[MatrixRows(K)] |-> Garbage],
         value |-> [k \in 1..outer[MatrixRows(K)] |-> Garbage]]

\* create_matrix_portrait after prepare_memory: the column nodes_count in the
\* last slot of every row of a Neumann task, then the columns k = i, i + 1, ..
\* in the other slots and the value 0 in all; slot j is inner[j + 1]
PortraitColumns(K, neumann) ==
    LET n == IF neumann THEN 1 ELSE 0
        rowOf(j) == CHOOSE i \in 0..(MatrixRows(K) - 1) : K.outer[i] <= j /\ j < K.outer[i + 1]
    IN  [K EXCEPT
           !.inner = [j1 \in DOMAIN K.inner |->
                        LET j == j1 - 1
                            i == rowOf(j)
                        IN  IF j < K.outer[i + 1] - n
                            THEN i + (j - K.outer[i])
                            ELSE IF neumann THEN nodes_count_mesh_1d ELSE K.inner[j1]],
           !.value = [j1 \in DOMAIN K.value |-> 0]]

\* create_matrix_portrait without the count of the column nodes_count
create_matrix_portrait_uncounted(K, neumann, nonlocal) ==
    PortraitColumns(
        prepare_memory_1d(
            [K EXCEPT !.outer = PortraitWidthsFrom([outer |-> K.outer, pos |-> 0], nonlocal)]),
        neumann)

\* create_matrix_portrait
create_matrix_portrait(K, neumann, nonlocal) ==
    LET widths == PortraitWidthsFrom([outer |-> K.outer, pos |-> 0], nonlocal)
        counted == [K EXCEPT !.outer =
                       IF neumann
                       THEN [r \in DOMAIN widths |-> IF r >= 1 THEN widths[r] + 1 ELSE widths[r]]
                       ELSE widths]
    IN  PortraitColumns(prepare_memory_1d(counted), neumann)

\* the quadrature of the 1D element: the derivative of the shape functions,
\* the coordinate of a quadrature node, mesh()->jacobian(), and the influence
\* function given to the solver
qNxi_1d(i, q) == IF i = 0 THEN 0 - 1 ELSE 1
quad_coord_mesh_1d(e, q) == mesh_node(node_number_mesh_1d(e, q))
jacobian_mesh_1d == 1
influence_function(a, b) == IF a = b THEN 2 ELSE 1

integrate_basic(e, i) ==
    SumSeq([q1 \in 1..qnodes_count_1d |-> weight_1d(q1 - 1) * qN_1d(i, q1 - 1)])
        * jacobian_mesh_1d

\* an element with its quadrature tables: [nodes_count, weights, NInQuad];
\* qnodes_count() is weights.size(), and a read behind the end of a vector
\* gives junk
qnodes_count(el) == Len(el.weights)
weight(el, q, junk) == IF q < Len(el.weights) THEN el.weights[q + 1] ELSE junk
qN(el, i, q, junk) ==
    IF i * qnodes_count(el) + q < Len(el.NInQuad)
    THEN el.NInQuad[i * qnodes_count(el) + q + 1]
    ELSE junk

\* mesh()->element() of the 1D mesh
mesh_element ==
    [nodes_count |-> element_nodes_count,
     weights |-> [q1 \in 1..qnodes_count_1d |-> weight_1d(q1 - 1)],
     NInQuad |-> [k \in 1..(element_nodes_count * qnodes_count_1d) |->
                    qN_1d((k - 1) \div qnodes_count_1d, (k - 1) % qnodes_count_1d)]]

\* integrate_basic_pair for the element el: its loop runs to nodes_count()
integrate_basic_pair_of(el, i, j, junk) ==
    SumSeq([q1 \in 1..el.nodes_count |->
               weight(el, q1 - 1, junk) * qN(el, i, q1 - 1, junk) * qN(el, j, q1 - 1, junk)])
        * jacobian_mesh_1d

integrate_basic_pair(e, i, j) == integrate_basic_pair_of(mesh_element, i, j, 0)

\* integrate_basic of static_analysis.cpp: its loop runs to nodes_count();
\* jacobi_matrices holds a row <<J0, J1, J2, J3>> per quadrature node
integrate_basic_2d(el, i, jacobi_matrices, junk) ==
    SumSeq([q1 \in 1..el.nodes_count |->
               weight(el, q1 - 1, junk) * qN(el, i, q1 - 1, junk)
                 * (IF q1 <= Len(jacobi_matrices)
                    THEN jacobi_matrices[q1][1] * jacobi_matrices[q1][4]
                           - jacobi_matrices[q1][2] * jacobi_matrices[q1][3]
                    ELSE junk)])

integrate_loc(e, i, j) ==
    SumSeq([q1 \in 1..qnodes_count_1d |->
               weight_1d(q1 - 1) * qNxi_1d(i, q1 - 1) * qNxi_1d(j, q1 - 1)])
        \div jacobian_mesh_1d

integrate_nonloc(eL, eNL, iL, jNL) ==
    SumSeq([qL \in 1..qnodes_count_1d |->
        weight_1d(qL - 1) * qNxi_1d(iL, qL - 1)
          * SumSeq([qNL \in 1..qnodes_count_1d |->
                weight_1d(qNL - 1)
                  * influence_function(quad_coord_mesh_1d(eL, qL - 1),
                                       quad_coord_mesh_1d(eNL, qNL - 1))
                  * qNxi_1d(jNL, qNL - 1)])])

\* Eigen's K.coeffRef(row, col) += add: the entry is the stored one, or a new
\* entry 0 inserted at its place in the row
coeffRef(K, row, col, add) ==
    LET lo == K.outer[row]
        hi == K.outer[row + 1]
        at == {k \in (lo + 1)..hi : K.inner[k] = col}
        p == lo + Cardinality({k \in (lo + 1)..hi : K.inner[k] < col}) + 1
    IN  IF at # {}
        THEN [K EXCEPT !.value[CHOOSE k \in at : TRUE] = @ + add]
        ELSE [outer |-> [r \in DOMAIN K.outer |->
                           IF r > row THEN K.outer[r] + 1 ELSE K.outer[r]],
              inner |-> [k \in 1..(Len(K.inner) + 1) |->
                           IF k < p THEN K.inner[k]
                           ELSE IF k = p THEN col ELSE K.inner[k - 1]],
              value |-> [k \in 1..(Len(K.value) + 1) |->
                           IF k < p THEN K.value[k]
                           ELSE IF k = p THEN add ELSE K.value[k - 1]]]

\* the calls <<row, col, integral>> mesh_run<LOCAL> makes for one node with the
\* rule: K is "K" (integrate_rule_loc, factor 1) or "C" (integrate_basic_pair)
LocCalls1d(node, rule1d) ==
    Flatten([m \in 1..Len(node_elements(node)) |->
        [j1 \in 1..element_nodes_count |->
            LET eL == node_elements(node)[m][1]
                iL == node_elements(node)[m][2]
            IN  <<node_number_mesh_1d(eL, iL), node_number_mesh_1d(eL, j1 - 1),
                  IF rule1d = "K" THEN integrate_loc(eL, iL, j1 - 1)
                                  ELSE integrate_basic_pair(eL, iL, j1 - 1)>>]])

\* the calls mesh_run<NONLOCAL> makes for one node
NonlocCalls1d(node, rule1d) ==
    Flatten([m \in 1..Len(node_elements(node)) |->
        LET eL == node_elements(node)[m][1]
            iL == node_elements(node)[m][2]
        IN  Flatten([n1 \in 1..(right_neighbour(eL) - left_neighbour(eL)) |->
                [j1 \in 1..element_nodes_count |->
                    LET eNL == left_neighbour(eL) + n1 - 1
                    IN  <<node_number_mesh_1d(eL, iL), node_number_mesh_1d(eNL, j1 - 1),
                          IF rule1d = "K" THEN integrate_nonloc(eL, eNL, iL, j1 - 1)
                                          ELSE 0>>]])])

\* the callbacks of calc_matrix over the calls of one node: s is the record
\* [K, node, pos]
RECURSIVE CallbackFrom(_, _)
CallbackFrom(s, calls) ==
    IF s.pos > Len(calls) THEN s
    ELSE CallbackFrom(
             [K |-> IF calls[s.pos][1] <= calls[s.pos][2]
                    THEN coeffRef(s.K, calls[s.pos][1], calls[s.pos][2], calls[s.pos][3])
                    ELSE s.K,
              node |-> s.node, pos |-> s.pos + 1],
             calls)

\* mesh_run over the nodes with a callback of calc_matrix
RECURSIVE MeshRunFrom(_, _, _)
MeshRunFrom(s, nonloc, rule1d) ==
    IF s.node >= nodes_count_mesh_1d THEN s.K
    ELSE MeshRunFrom(
             [CallbackFrom([s EXCEPT !.pos = 1],
                           IF nonloc THEN NonlocCalls1d(s.node, rule1d)
                                     ELSE LocCalls1d(s.node, rule1d))
                 EXCEPT !.node = @ + 1],
             nonloc, rule1d)

\* calc_matrix, the loop of a Neumann task: the column nodes_count of every
\* node row takes the sum of integrate_basic over the node's elements
RECURSIVE NeumannColumnFrom(_)
NeumannColumnFrom(s) ==
    IF s.node >= nodes_count_mesh_1d THEN s.K
    ELSE NeumannColumnFrom(
             [K |-> coeffRef(s.K, s.node, nodes_count_mesh_1d,
                             SumSeq([m \in 1..Len(node_elements(s.node)) |->
                                        integrate_basic(node_elements(s.node)[m][1],
                                                        node_elements(s.node)[m][2])])),
              node |-> s.node + 1, pos |-> 1])

\* calc_matrix; K_bound is not written
calc_matrix(K, neumann, nonlocal, rule1d) ==
    LET K0 == IF neumann THEN NeumannColumnFrom([K |-> K, node |-> 0, pos |-> 1]) ELSE K
        K1 == MeshRunFrom([K |-> K0, node |-> 0, pos |-> 1], FALSE, rule1d)
    IN  IF nonlocal
        THEN MeshRunFrom([K |-> K1, node |-> 0, pos |-> 1], TRUE, rule1d)
        ELSE K1

\* the callbacks run under "omp parallel for" on the shared K_inner: when a
\* coeffRef inserts an entry the portrait has not reserved, the threads race on
\* the storage of K_inner; the outcomes are the matrix of the sequential order
\* and one whose values are lost
RaceOutcomes(K0, K1) ==
    IF Len(K1.inner) = Len(K0.inner) THEN {K1}
    ELSE {K1, [K1 EXCEPT !.value = [k \in DOMAIN K1.value |-> Garbage]]}

\* create_matrix
create_matrix(K, neumann, nonlocal, rule1d) ==
    calc_matrix(create_matrix_portrait(K, neumann, nonlocal), neumann, nonlocal, rule1d)

\* integrate_function of the 1D solver
integrate_function_1d(e, i, fn1d) ==
    SumSeq([q1 \in 1..qnodes_count_1d |->
               weight_1d(q1 - 1) * qN_1d(i, q1 - 1)
                 * Apply(fn1d, quad_coord_mesh_1d(e, q1 - 1))])
        * jacobian_mesh_1d

\* integrate_right_part of the 1D solver
integrate_right_part_1d(fv, fn1d) ==
    [n \in DOMAIN fv |->
        IF n < nodes_count_mesh_1d
        THEN fv[n] + SumSeq([m \in 1..Len(node_elements(n)) |->
                                integrate_function_1d(node_elements(n)[m][1],
                                                      node_elements(n)[m][2], fn1d)])
        ELSE fv[n]]

\* Eigen::ConjugateGradient<.., Eigen::Upper>{K}.solve(fv) and solveWithGuess:
\* the vectors the solver may return, one entry per row of K
solve(K, fv) ==
    {[n \in 0..(MatrixRows(K) - 1) |-> 0],
     [n \in 0..(MatrixRows(K) - 1) |-> 1],
     [n \in 0..(MatrixRows(K) - 1) |-> n + 1]}

\* the call of stationary(parameters, bound_cond, right_part, influence_function)
\* on a solver whose mesh has elements_count elements
InitStationary ==
    /\ sys = "st1d"
    /\ pc = "call"
    /\ dof = 1
    /\ elements_count \in 2..(MaxElems + 1)
    /\ first_node = 0 /\ last_node = elements_count + 1
    /\ theory \in {"LOCAL", "NONLOCAL"}
    /\ radius = IF theory = "NONLOCAL" THEN 1 ELSE 0
    /\ bounds_cond \in [1..2 -> [first : BoundaryTypes, second : FluxValues]]
    /\ right_part \in BoundaryFunctions
    /\ inner_nodes = <<>> /\ bgroup = <<>> /\ x = <<>>
    /\ K_inner = <<>> /\ K_bound = <<>> /\ f = <<>> /\ f_in = <<>>
    /\ ind = <<>> /\ cur = <<>> /\ todo = {} /\ presort = <<>> /\ writes = <<>>
    /\ triplets = <<>> /\ triplets_bound = <<>>
    /\ temperature = <<>> /\ C_inner = <<>> /\ step = 0 /\ sol_parameters = <<>>
    /\ IdleDriver

Frame1D == UNCHANGED <<sys, dof, theory, elements_count, radius, first_node, last_node,
                       inner_nodes, ind, cur, todo, presort, writes, bgroup, x, elvars, drvvars>>

\* stationary(), lines 359-368: the test of the net flux, then the
\* declarations of K_inner, K_bound and f
StationaryEnter ==
    /\ sys = "st1d" /\ pc = "call"
    /\ IF neumann_task /\ bounds_cond[1].second + bounds_cond[2].second > Tolerance
       THEN /\ pc' = "domain_error"
            /\ UNCHANGED <<K_inner, K_bound, f>>
       ELSE /\ pc' = "declared"
            /\ K_inner' = EmptyMatrix(size)
            /\ K_bound' = <<<<>>, <<>>>>
            /\ f' = [i \in 0..(size - 1) |-> 0]
    /\ UNCHANGED <<bounds_cond, f_in, s1dvars>>
    /\ Frame1D

\* create_matrix_portrait, called by create_matrix (line 307)
CreateMatrixPortrait ==
    /\ sys = "st1d" /\ pc = "declared"
    /\ K_inner' = create_matrix_portrait(K_inner, neumann_task, nonlocal_task)
    /\ pc' = "portrait"
    /\ UNCHANGED <<K_bound, f, bounds_cond, f_in, s1dvars>>
    /\ Frame1D

\* calc_matrix, called by create_matrix (line 308)
CalcMatrix ==
    /\ sys = "st1d" /\ pc = "portrait"
    /\ K_inner' \in RaceOutcomes(K_inner, calc_matrix(K_inner, neumann_task, nonlocal_task, "K"))
    /\ pc' = "matrix"
    /\ UNCHANGED <<K_bound, f, bounds_cond, f_in, s1dvars>>
    /\ Frame1D

\* stationary(), lines 381-383: the right part, then the second kind, then the
\* first kind
StationaryRightPart ==
    /\ sys = "st1d" /\ pc = "matrix"
    /\ f_in' = boundary_condition_second_kind_1d(integrate_right_part_1d(f, right_part),
                                                bounds_cond)
    /\ f' = boundary_condition_first_kind_1d(f_in', bounds_cond, K_bound)
    /\ pc' = "rhs"
    /\ UNCHANGED <<K_inner, K_bound, bounds_cond, s1dvars>>
    /\ Frame1D

\* stationary(), lines 385-387: the solution without the entries past the nodes
StationarySolve ==
    /\ sys = "st1d" /\ pc = "rhs"
    /\ temperature' \in {[n \in 0..(nodes_count_mesh_1d - 1) |-> t[n]] : t \in solve(K_inner, f)}
    /\ pc' = "returned"
    /\ UNCHANGED <<K_inner, K_bound, f, bounds_cond, f_in, C_inner, step, right_part, sol_parameters>>
    /\ Frame1D

(***************************************************************************)
(* nonstationary() of the 1D solver; the factors lambda * p1,               *)
(* lambda * (1 - p1) and rho * c are 1.                                     *)
(***************************************************************************)
TimeIntervals == {<<0, 2>>, <<1, 5>>}

\* std::numeric_limits<uintmax_t>::max(), with uintmax_t and size_t scaled down
\* to the type whose largest value lies one above the step counts tried; sums
\* wrap around behind it
uintmax_max == MaxSteps + 1
wrap(n) == n % (uintmax_max + 1)

\* the local tau, line 423
tau == (sol_parameters.time_interval[2] - sol_parameters.time_interval[1])
           \div sol_parameters.steps

\* K.coeff(r, c)
coeff(K, r, c) ==
    LET at == {k \in (K.outer[r] + 1)..K.outer[r + 1] : K.inner[k] = c}
    IN  IF at = {} THEN 0 ELSE K.value[CHOOSE k \in at : TRUE]

\* K *= a; K += C, lines 426-427: the sum holds the entries of both
scale_add(K, a, C) ==
    LET rows == [r1 \in 1..MatrixRows(K) |->
                    SortedSeq({c \in 0..(MatrixRows(K) - 1) :
                        \E k \in 1..Len(RowColumns(K, r1 - 1)) \cup 1..Len(RowColumns(C, r1 - 1)) :
                            \/ (k <= Len(RowColumns(K, r1 - 1)) /\ RowColumns(K, r1 - 1)[k] = c)
                            \/ (k <= Len(RowColumns(C, r1 - 1)) /\ RowColumns(C, r1 - 1)[k] = c)})]
    IN  [outer |-> [r \in 0..MatrixRows(K) |-> SumSeq([q \in 1..r |-> Len(rows[q])])],
         inner |-> Flatten(rows),
         value |-> Flatten([r1 \in 1..MatrixRows(K) |->
                      [k \in 1..Len(rows[r1]) |->
                          a * coeff(K, r1 - 1, rows[r1][k]) + coeff(C, r1 - 1, rows[r1][k])]])]

\* C.selfadjointView<Eigen::Upper>() * u
selfadjointView_Upper_times(C, u) ==
    [r \in DOMAIN u |->
        SumSeq([c1 \in 1..MatrixRows(C) |->
                   (IF c1 - 1 >= r THEN coeff(C, r, c1 - 1) ELSE coeff(C, c1 - 1, r))
                      * u[c1 - 1]])]

convert_nonstationary_boundary_to_stationary(bound_cond, t) ==
    [b \in 1..2 |-> [first |-> bound_cond[b].first, second |-> Apply(bound_cond[b].second, t)]]

\* the body of the loop with the first-kind step before the scaling by tau
nonstationary_right_part_firstKindEarly(u_prev, k) ==
    LET bound == convert_nonstationary_boundary_to_stationary(
                     bounds_cond, sol_parameters.time_interval[1] + k * tau)
        f0 == [n \in 0..(nodes_count_mesh_1d - 1) |-> 0]
        f2 == boundary_condition_first_kind_1d(
                  integrate_right_part_1d(boundary_condition_second_kind_1d(f0, bound),
                                          right_part),
                  bound, K_bound)
        Cu == selfadjointView_Upper_times(C_inner, u_prev)
    IN  [n \in DOMAIN f2 |-> f2[n] * tau + Cu[n]]

\* the body of the loop of nonstationary() up to the solver, lines 438-445,
\* with temperature_prev = u_prev at the given step
nonstationary_right_part(u_prev, k) ==
    LET bound == convert_nonstationary_boundary_to_stationary(
                     bounds_cond, sol_parameters.time_interval[1] + k * tau)
        f0 == [n \in 0..(nodes_count_mesh_1d - 1) |-> 0]
        f2 == integrate_right_part_1d(boundary_condition_second_kind_1d(f0, bound), right_part)
        Cu == selfadjointView_Upper_times(C_inner, u_prev)
        f4 == [n \in DOMAIN f2 |-> f2[n] * tau + Cu[n]]
    IN  boundary_condition_first_kind_1d(f4, bound, K_bound)

\* the call of nonstationary(sol_parameters, parameters, bound_cond, init_dist,
\* right_part, influence_function): a boundary value is a function of the time
InitNonstationary ==
    /\ sys = "ns1d"
    /\ pc = "call"
    /\ dof = 1
    /\ elements_count \in 2..(MaxElems + 1)
    /\ first_node = 0 /\ last_node = elements_count + 1
    /\ theory \in {"LOCAL", "NONLOCAL"}
    /\ radius = IF theory = "NONLOCAL" THEN 1 ELSE 0
    /\ bounds_cond \in [1..2 -> [first : BoundaryTypes, second : BoundaryFunctions]]
    /\ right_part \in BoundaryFunctions
    /\ sol_parameters \in [time_interval : TimeIntervals,
                            steps : (1..MaxSteps) \cup {uintmax_max},
                            save_freq : {1, 2, uintmax_max}]
    /\ args \in [init_dist : BoundaryFunctions]
    /\ inner_nodes = <<>> /\ bgroup = <<>> /\ x = <<>>
    /\ K_inner = <<>> /\ K_bound = <<>> /\ f = <<>> /\ f_in = <<>>
    /\ ind = <<>> /\ cur = <<>> /\ todo = {} /\ presort = <<>> /\ writes = <<>>
    /\ triplets = <<>> /\ triplets_bound = <<>>
    /\ temperature = <<>> /\ C_inner = <<>> /\ step = 0
    /\ data = <<>> /\ mesh_proxy = "nullptr" /\ exit_code = 0
    /\ EmptyContainer

Init1D == InitStationary \/ InitNonstationary

\* nonstationary_solver_logger(temperature, sol_parameters, step): data is the
\* sequence of its calls
nonstationary_solver_logger(log, temp, k) == Append(log, [step |-> k, temperature |-> temp])

\* nonstationary(), lines 398-437: K_inner and C_inner by create_matrix, then
\* K_inner = tau * K_inner + C_inner, f and temperature_prev zero, the call of
\* the logger for step 0 and the test at the head of the loop
NonstationaryPrepare ==
    /\ sys = "ns1d" /\ pc = "call"
    /\ \E K \in RaceOutcomes(
                 create_matrix_portrait(EmptyMatrix(nodes_count_mesh_1d), FALSE, nonlocal_task),
                 create_matrix(EmptyMatrix(nodes_count_mesh_1d), FALSE, nonlocal_task, "K")) :
          /\ C_inner' \in RaceOutcomes(
                 create_matrix_portrait(EmptyMatrix(nodes_count_mesh_1d), FALSE, FALSE),
                 create_matrix(EmptyMatrix(nodes_count_mesh_1d), FALSE, FALSE, "C"))
          /\ K_inner' = scale_add(K, tau, C_inner')
    /\ K_bound' = <<<<>>, <<>>>>
    /\ f' = [n \in 0..(nodes_count_mesh_1d - 1) |-> 0]
    /\ temperature' = [n \in 0..(nodes_count_mesh_1d - 1) |-> 0]
    /\ data' = IF sol_parameters.save_freq # uintmax_max
               THEN nonstationary_solver_logger(data, temperature', 0)
               ELSE data
    /\ step' = 1
    /\ pc' = IF 1 < wrap(sol_parameters.steps + 1) THEN "loop" ELSE "done"
    /\ UNCHANGED <<bounds_cond, f_in, right_part, sol_parameters>>
    /\ UNCHANGED <<sys, dof, theory, elements_count, radius, first_node, last_node,
                   inner_nodes, ind, cur, todo, presort, writes, bgroup, x, elvars>>
    /\ UNCHANGED <<args, mesh_proxy, exit_code, meshvars>>

\* nonstationary(), one pass of the loop, lines 437-450.  History: writes
\* gains the step, the time of the boundary values, temperature_prev as the
\* pass found it and temperature_curr
NonstationaryStep ==
    /\ sys = "ns1d" /\ pc = "loop"
    /\ f_in' = f
    /\ f' = nonstationary_right_part(temperature, step)
    /\ temperature' \in solve(K_inner, f')
    /\ writes' = Append(writes, [step |-> step,
                                 time |-> sol_parameters.time_interval[1] + step * tau,
                                 prev |-> temperature,
                                 curr |-> temperature'])
    /\ data' = IF step % sol_parameters.save_freq = 0
               THEN nonstationary_solver_logger(data, temperature', step)
               ELSE data
    /\ step' = wrap(step + 1)
    /\ pc' = IF step' < wrap(sol_parameters.steps + 1) THEN "loop" ELSE "done"
    /\ UNCHANGED <<K_inner, K_bound, C_inner, bounds_cond, right_part, sol_parameters>>
    /\ UNCHANGED <<sys, dof, theory, elements_count, radius, first_node, last_node,
                   inner_nodes, ind, cur, todo, presort, bgroup, x, elvars>>
    /\ UNCHANGED <<args, mesh_proxy, exit_code, meshvars>>

Next1D ==
    \/ StationaryEnter
    \/ CreateMatrixPortrait
    \/ CalcMatrix
    \/ StationaryRightPart
    \/ StationarySolve
    \/ NonstationaryPrepare
    \/ NonstationaryStep

Spec1D == Init1D /\ [][Next1D]_vars

\* C12: stationary() with both ends SECOND_KIND and |g_left + g_right| not
\* below the tolerance throws before K_inner, K_bound or f exist, whatever the
\* sign of the sum; in every other case it does not throw.
C12_NeumannRejected ==
    (sys = "st1d" /\ pc # "call") =>
        /\ pc = "domain_error" <=>
              (/\ neumann_task
               /\ Abs(bounds_cond[1].second + bounds_cond[2].second) >= Tolerance)
        /\ pc = "domain_error" => (K_inner = <<>> /\ K_bound = <<>> /\ f = <<>>)
(***************************************************************************)
(* The routines over all quadrature nodes: approx_all_quad_nodes and       *)
(* approx_all_jacobi_matrices of finite_element_routine, and               *)
(* approx_in_all_quad_nodes and derivatives_in_quad of the mesh utilities.  *)
(* args is [routine, shifts, node_shifts, jacobi_size]: the routine, its   *)
(* vector of quadrature shifts and, for derivatives_in_quad, the vector    *)
(* quad_nodes_shifts and jacobi_matrices.size().  A vector v of the code   *)
(* is a sequence, v[k] of the code at position k + 1.                      *)
(***************************************************************************)
QuadRoutines == {"approx_all_quad_nodes", "approx_all_jacobi_matrices",
                 "approx_in_all_quad_nodes", "derivatives_in_quad"}

qnodes_count_2d(e) == nodes_count_2d(e)

\* quadrature_shifts_init, and quadrature_shifts_2d with the count given per
\* element: per_node is TRUE for element_node_shits_quadrature_shifts_2d
quadrature_shifts(per_node) ==
    [k \in 1..(elements_count + 1) |->
        SumSeq([e1 \in 1..(k - 1) |->
                   (IF per_node THEN nodes_count_2d(e1 - 1) ELSE 1) * qnodes_count_2d(e1 - 1)])]

\* a test that lets a vector with one entry too many pass in the routines
\* with one vector of shifts
ShapeMismatch_longPasses(a) ==
    IF a.routine # "derivatives_in_quad"
    THEN elements_count + 1 # Len(a.shifts) /\ elements_count + 2 # Len(a.shifts)
    ELSE \/ elements_count + 1 # Len(a.shifts)
         \/ elements_count + 1 # Len(a.node_shifts)
         \/ a.shifts[Len(a.shifts)] # a.jacobi_size

\* the test at the head of the routine that throws std::logic_error
ShapeMismatch(a) ==
    \/ elements_count + 1 # Len(a.shifts)
    \/ /\ a.routine = "derivatives_in_quad"
       /\ \/ elements_count + 1 # Len(a.node_shifts)
          \/ a.shifts[Len(a.shifts)] # a.jacobi_size

\* the stores of the loops of the routine, in order: <<index, iteration>>,
\* the iteration being <<el, q>>, or <<el, i, q>> in derivatives_in_quad
Stores(a) ==
    Flatten([e1 \in 1..elements_count |->
        IF a.routine = "approx_in_all_quad_nodes"
        THEN [q1 \in 1..qnodes_count_2d(e1 - 1) |->
                 <<a.shifts[e1] + q1 - 1, <<e1 - 1, q1 - 1>>>>]
        ELSE IF a.routine = "derivatives_in_quad"
        THEN Flatten([i1 \in 1..nodes_count_2d(e1 - 1) |->
                 [q1 \in 1..qnodes_count_2d(e1 - 1) |->
                     <<a.node_shifts[e1] + (i1 - 1) * qnodes_count_2d(e1 - 1) + q1 - 1,
                       <<e1 - 1, i1 - 1, q1 - 1>>>>]])
        ELSE Flatten([q1 \in 1..qnodes_count_2d(e1 - 1) |->
                 Flatten([i1 \in 1..nodes_count_2d(e1 - 1) |->
                     [c1 \in 1..(IF a.routine = "approx_all_quad_nodes" THEN 2 ELSE 4) |->
                         <<a.shifts[e1] + q1 - 1, <<e1 - 1, q1 - 1>>>>]])])])

\* the vector the routine returns: shifts.back() entries (quad_nodes_shifts.back()
\* in derivatives_in_quad)
approx(a) ==
    LET sizes == IF a.routine = "derivatives_in_quad" THEN a.node_shifts ELSE a.shifts
        st == Stores(a)
    IN  [k \in 0..(sizes[Len(sizes)] - 1) |->
            [iterations |-> {st[m][2] : m \in {n \in DOMAIN st : st[n][1] = k}},
             stores |-> Cardinality({n \in DOMAIN st : st[n][1] = k})]]

\* a vector of shifts as it should be, without its last entry, with one entry
\* more, or empty
ShiftVectors(v) == {v, SubSeq(v, 1, Len(v) - 1), v \o <<v[Len(v)]>>, <<>>}

InitQuad ==
    /\ sys = "quad"
    /\ pc = "call"
    /\ elements_count \in 1..MaxElems
    /\ \E r \in QuadRoutines, sh \in ShiftVectors(quadrature_shifts(FALSE)) :
          \/ /\ r # "derivatives_in_quad"
             /\ args = [routine |-> r, shifts |-> sh, node_shifts |-> <<>>, jacobi_size |-> 0]
          \/ /\ r = "derivatives_in_quad"
             /\ \E nsh \in ShiftVectors(quadrature_shifts(TRUE)), extra \in {0, 1} :
                   args = [routine |-> r, shifts |-> sh, node_shifts |-> nsh,
                           jacobi_size |-> quadrature_shifts(FALSE)[elements_count + 1] + extra]
    /\ data = <<>>
    /\ mesh_proxy = "nullptr" /\ exit_code = 0
    /\ EmptyContainer
    /\ dof = 1 /\ first_node = 0 /\ last_node = elements_count + 2
    /\ inner_nodes = <<>> /\ bgroup = <<>> /\ bounds_cond = <<>>
    /\ K_bound = <<>> /\ f = <<>> /\ f_in = <<>> /\ x = <<>>
    /\ IdleIndexer

FrameDriver == UNCHANGED <<sys, idxvars, bcvars, elvars, s1dvars, meshvars>>

\* the call of the routine
ApproxAllQuadNodes ==
    /\ sys = "quad" /\ pc = "call"
    /\ IF ShapeMismatch(args)
       THEN pc' = "logic_error" /\ data' = data
       ELSE pc' = "returned" /\ data' = approx(args)
    /\ UNCHANGED <<args, mesh_proxy, exit_code>>
    /\ FrameDriver

(***************************************************************************)
(* finite_element_solver_base: the constructor and set_mesh.  A pointer is *)
(* "nullptr" or one of Proxies; args is the history of the arguments given  *)
(* to set_mesh, the constructor's first.                                    *)
(***************************************************************************)
Proxies == {"proxy_a", "proxy_b"}

\* set_mesh that assigns before it tests
set_mesh_assignFirst(stored, arg) == [thrown |-> arg = "nullptr", proxy |-> arg]

\* set_mesh: whether it throws std::invalid_argument, and _mesh_proxy after it
set_mesh(stored, arg) ==
    IF arg = "nullptr" THEN [thrown |-> TRUE, proxy |-> stored]
                       ELSE [thrown |-> FALSE, proxy |-> arg]

\* before the constructor: the member _mesh_proxy is a null shared_ptr
InitProxy ==
    /\ sys = "proxy"
    /\ pc = "new"
    /\ mesh_proxy = "nullptr"
    /\ args = <<>> /\ data = <<>> /\ exit_code = 0
    /\ EmptyContainer
    /\ elements_count = 1
    /\ dof = 1 /\ first_node = 0 /\ last_node = elements_count + 2
    /\ inner_nodes = <<>> /\ bgroup = <<>> /\ bounds_cond = <<>>
    /\ K_bound = <<>> /\ f = <<>> /\ f_in = <<>> /\ x = <<>>
    /\ IdleIndexer

\* the constructor: it calls set_mesh; if that throws there is no object
Construct ==
    /\ sys = "proxy" /\ pc = "new"
    /\ \E arg \in Proxies \cup {"nullptr"} :
          /\ mesh_proxy' = set_mesh(mesh_proxy, arg).proxy
          /\ pc' = IF set_mesh(mesh_proxy, arg).thrown THEN "construction_failed"
                                                       ELSE "constructed"
          /\ args' = Append(args, arg)
    /\ UNCHANGED <<data, exit_code>>
    /\ FrameDriver

\* set_mesh on the constructed solver; the caller catches the exception
SetMesh ==
    /\ sys = "proxy" /\ pc \in {"constructed", "invalid_argument"}
    /\ Len(args) < MaxCalls
    /\ \E arg \in Proxies \cup {"nullptr"} :
          /\ mesh_proxy' = set_mesh(mesh_proxy, arg).proxy
          /\ pc' = IF set_mesh(mesh_proxy, arg).thrown THEN "invalid_argument"
                                                       ELSE "constructed"
          /\ args' = Append(args, arg)
    /\ UNCHANGED <<data, exit_code>>
    /\ FrameDriver

(***************************************************************************)
(* main of thermal.cpp.  args is [argc, petsc_initialize, thrown,          *)
(* petsc_finalize]: argc, the error code PetscInitialize returns, the      *)
(* stage of the try block that throws ("none" if none does) and the value  *)
(* PetscFinalize returns.                                                  *)
(***************************************************************************)
EXIT_FAILURE == 1
PetscErrorCodes == {0, 56}
Stages == {"none", "arguments", "mesh", "solve"}

\* main: the value it returns
main(a) ==
    IF a.petsc_initialize # 0 THEN a.petsc_initialize
    ELSE IF a.argc < 5 THEN EXIT_FAILURE
    ELSE IF a.thrown # "none" THEN EXIT_FAILURE
    ELSE a.petsc_finalize

InitCli ==
    /\ sys = "cli"
    /\ pc = "start"
    /\ args \in [argc : 1..6, petsc_initialize : PetscErrorCodes, thrown : Stages,
                  petsc_finalize : PetscErrorCodes]
    /\ data = <<>> /\ mesh_proxy = "nullptr" /\ exit_code = 0
    /\ EmptyContainer
    /\ elements_count = 1
    /\ dof = 1 /\ first_node = 0 /\ last_node = elements_count + 2
    /\ inner_nodes = <<>> /\ bgroup = <<>> /\ bounds_cond = <<>>
    /\ K_bound = <<>> /\ f = <<>> /\ f_in = <<>> /\ x = <<>>
    /\ IdleIndexer

\* the run of main
Main ==
    /\ sys = "cli" /\ pc = "start"
    /\ exit_code' = main(args)
    /\ pc' = "exited"
    /\ UNCHANGED <<args, data, mesh_proxy>>
    /\ FrameDriver

(***************************************************************************)
(* mesh_container_2d::read_su2.  args is the mesh file: the number of 2D   *)
(* elements and the markers in file order, each with its name and its      *)
(* number of 1D elements.  The element on line e of marker b is <<b, e>>,  *)
(* the 2D element on line e is <<0, e>>.                                   *)
(***************************************************************************)
MarkerNames == {"Left", "Right", "Default"}

\* the lines of marker b
MarkerElements(markers, b) == [e \in 1..markers[b].count |-> <<b, e>>]

RECURSIVE ReadElements1dFrom(_, _, _)
\* the loop over the markers, s = [groups_1d, elements_1d]: emplace keeps one
\* key per name, elements_1d[name] = {} starts the name's vector anew
ReadElements1dFrom(s, markers, b) ==
    IF b > Len(markers) THEN s
    ELSE LET group == markers[b].name
         IN  ReadElements1dFrom(
                 [groups_1d |-> s.groups_1d \cup {group},
                  elements_1d |-> [g \in s.groups_1d \cup {group} |->
                                      IF g = group THEN MarkerElements(markers, b)
                                                   ELSE s.elements_1d[g]]],
                 markers, b + 1)

read_elements_1d(markers) ==
    ReadElements1dFrom([groups_1d |-> {}, elements_1d |-> <<>>], markers, 1)

\* the orders in which a range-for may go through an unordered_set
IterationOrders(set) ==
    {q \in [1..Cardinality(set) -> set] : \A a, b \in DOMAIN q : a # b => q[a] # q[b]}

RECURSIVE ElementsGroupsFrom(_, _, _, _)
\* the first loop over _groups_1d, s = [elements_groups, elements]
ElementsGroupsFrom(s, elements_1d, order, k) ==
    IF k > Len(order) THEN s
    ELSE LET count == Len(elements_1d[order[k]])
         IN  ElementsGroupsFrom(
                 [elements_groups |->
                      [g \in DOMAIN s.elements_groups \cup {order[k]} |->
                          IF g = order[k] THEN <<s.elements, s.elements + count>>
                                          ELSE s.elements_groups[g]],
                  elements |-> s.elements + count],
                 elements_1d, order, k + 1)

RECURSIVE ElementsFrom(_, _, _, _)
\* the second loop over _groups_1d: _elements behind the 2D elements
ElementsFrom(stored, elements_1d, order, k) ==
    IF k > Len(order) THEN stored
    ELSE ElementsFrom(stored \o elements_1d[order[k]], elements_1d, order, k + 1)

\* read_su2 with the set iterated in the given order: the container's fields
read_su2(file, order) ==
    LET parsed == read_elements_1d(file.markers)
        default == [g \in {"Default"} |-> <<0, file.elements_2d>>]
        groups == ElementsGroupsFrom([elements_groups |-> default,
                                      elements |-> file.elements_2d],
                                     parsed.elements_1d, order, 1)
    IN  [groups_1d |-> parsed.groups_1d,
         elements_2d_count |-> file.elements_2d,
         elements_groups |-> groups.elements_groups,
         elements |-> ElementsFrom([e \in 1..file.elements_2d |-> <<0, e>>],
                                   parsed.elements_1d, order, 1)]

InitSu2 ==
    /\ sys = "su2"
    /\ pc = "call"
    /\ \E n \in 1..MaxGroups :
          args \in [elements_2d : 1..MaxElems,
                    markers : [1..n -> [name : MarkerNames, count : 1..MaxElems]]]
    /\ data = <<>> /\ mesh_proxy = "nullptr" /\ exit_code = 0
    /\ EmptyContainer
    /\ elements_count = 1
    /\ dof = 1 /\ first_node = 0 /\ last_node = elements_count + 2
    /\ inner_nodes = <<>> /\ bgroup = <<>> /\ bounds_cond = <<>>
    /\ K_bound = <<>> /\ f = <<>> /\ f_in = <<>> /\ x = <<>>
    /\ IdleIndexer

\* the call of read_su2
ReadSu2 ==
    /\ sys = "su2" /\ pc = "call"
    /\ \E order \in IterationOrders(read_elements_1d(args.markers).groups_1d) :
          LET res == read_su2(args, order)
          IN  /\ elements' = res.elements
              /\ elements_groups' = res.elements_groups
              /\ groups_1d' = res.groups_1d
              /\ elements_2d_count' = res.elements_2d_count
    /\ pc' = "read"
    /\ UNCHANGED <<sys, idxvars, bcvars, elvars, s1dvars, args, data, mesh_proxy, exit_code>>

(***************************************************************************)
(* The mass-type integrals on an element with any quadrature.  args is     *)
(* [routine, el, i, j, jacobi_matrices]; data is the integral returned.    *)
(***************************************************************************)
\* elements of n nodes with a quadrature of qn nodes; the tables hold positive
\* values, different at different quadrature nodes
IntegrateElements ==
    {[nodes_count |-> n,
      weights |-> [q1 \in 1..qn |-> q1],
      NInQuad |-> [k \in 1..(n * qn) |-> 1 + ((k - 1) \div qn) + ((k - 1) % qn)]] :
        n \in 2..MaxQuad, qn \in 1..MaxQuad}

InitMass ==
    /\ sys = "mass"
    /\ pc = "call"
    /\ \E el \in IntegrateElements, r \in {"integrate_basic_pair", "integrate_basic"} :
        \E i \in 0..(el.nodes_count - 1),
           j \in IF r = "integrate_basic" THEN {0} ELSE 0..(el.nodes_count - 1) :
             args = [routine |-> r, el |-> el, i |-> i, j |-> j,
                     jacobi_matrices |-> [q1 \in 1..qnodes_count(el) |-> <<q1 + 1, 1, 1, 1>>]]
    /\ data = 0
    /\ mesh_proxy = "nullptr" /\ exit_code = 0
    /\ EmptyContainer
    /\ elements_count = 1
    /\ dof = 1 /\ first_node = 0 /\ last_node = elements_count + 2
    /\ inner_nodes = <<>> /\ bgroup = <<>> /\ bounds_cond = <<>>
    /\ K_bound = <<>> /\ f = <<>> /\ f_in = <<>> /\ x = <<>>
    /\ IdleIndexer

\* the call of the routine
IntegrateMass ==
    /\ sys = "mass" /\ pc = "call"
    /\ \E junk \in OutOfRangeReads :
          data' = IF args.routine = "integrate_basic_pair"
                  THEN integrate_basic_pair_of(args.el, args.i, args.j, junk)
                  ELSE integrate_basic_2d(args.el, args.i, args.jacobi_matrices, junk)
    /\ pc' = "returned"
    /\ UNCHANGED <<args, mesh_proxy, exit_code>>
    /\ FrameDriver

(***************************************************************************)
(* element_2d_integrate::set.  Lengths are in units in which the reference *)
(* element has side 144 and a quadrature rule the interval [0, 12], so     *)
(* that the quadrature points have integer coordinates.  args is [shape,   *)
(* quadXi, quadEta]; data is the element's tables after set.               *)
(***************************************************************************)
Shapes == {"triangle", "square"}

\* element_2d::boundary: the left and right sides are constants, the lower and
\* upper sides depend on xi
boundary(shape, side, xi) ==
    CASE side = "LEFT" -> 0
      [] side = "RIGHT" -> 144
      [] side = "DOWN" -> 0
      [] side = "UP" -> IF shape = "triangle" THEN 144 - xi ELSE 144

shape_nodes_count(shape) == IF shape = "triangle" THEN 3 ELSE 4

\* element_2d::N, Nxi, Neta: the linear triangle and the bilinear square
shape_N(shape, i, xi, eta) ==
    IF shape = "triangle"
    THEN CASE i = 0 -> 144 - xi - eta
           [] i = 1 -> xi
           [] i = 2 -> eta
    ELSE CASE i = 0 -> (144 - xi) * (144 - eta)
           [] i = 1 -> xi * (144 - eta)
           [] i = 2 -> xi * eta
           [] i = 3 -> (144 - xi) * eta

shape_Nxi(shape, i, xi, eta) ==
    IF shape = "triangle"
    THEN CASE i = 0 -> 0 - 1
           [] i = 1 -> 1
           [] i = 2 -> 0
    ELSE CASE i = 0 -> 0 - (144 - eta)
           [] i = 1 -> 144 - eta
           [] i = 2 -> eta
           [] i = 3 -> 0 - eta

shape_Neta(shape, i, xi, eta) ==
    IF shape = "triangle"
    THEN CASE i = 0 -> 0 - 1
           [] i = 1 -> 0
           [] i = 2 -> 1
    ELSE CASE i = 0 -> 0 - (144 - xi)
           [] i = 1 -> 0 - xi
           [] i = 2 -> xi
           [] i = 3 -> 144 - xi

\* quadrature_base: the rules of 1..MaxQuad nodes on [0, 12]
QuadratureRules ==
    {[left |-> 0, right |-> 12,
      nodes |-> [q1 \in 1..n |-> (12 * q1) \div (n + 1)],
      weights |-> [q1 \in 1..n |-> q1]] : n \in 1..MaxQuad}

\* set: the first loop nest fills xi, jacobianEta and weights and overwrites
\* the one vector eta in every pass of i, so that eta holds the values of the
\* last xi when the tables are filled from xi[j] and eta[k]
element_2d_integrate_set(shape, quadXi, quadEta) ==
    LET nXi == Len(quadXi.nodes)
        nEta == Len(quadEta.nodes)
        jacobianXi == (boundary(shape, "RIGHT", 0) - boundary(shape, "LEFT", 0))
                         \div (quadXi.right - quadXi.left)
        xi == [i \in 0..(nXi - 1) |->
                 boundary(shape, "LEFT", 0) + (quadXi.nodes[i + 1] - quadXi.left) * jacobianXi]
        jacobianEta == [i \in 0..(nXi - 1) |->
                          (boundary(shape, "UP", xi[i]) - boundary(shape, "DOWN", xi[i]))
                             \div (quadEta.right - quadEta.left)]
        eta == [j \in 0..(nEta - 1) |->
                  boundary(shape, "DOWN", xi[nXi - 1])
                    + (quadEta.nodes[j + 1] - quadEta.left) * jacobianEta[nXi - 1]]
        qn == nXi * nEta
        table(Fn(_, _, _, _)) ==
            [m \in 0..(qn * shape_nodes_count(shape) - 1) |->
                Fn(shape, m \div qn, xi[(m % qn) \div nEta], eta[(m % qn) % nEta])]
    IN  [weights |-> [m \in 0..(qn - 1) |->
                         quadXi.weights[(m \div nEta) + 1] * jacobianXi
                           * quadEta.weights[(m % nEta) + 1] * jacobianEta[m \div nEta]],
         NInQuad |-> table(shape_N),
         NxiInQuad |-> table(shape_Nxi),
         NetaInQuad |-> table(shape_Neta)]

InitElementSet ==
    /\ sys = "elint"
    /\ pc = "call"
    /\ args \in [shape : Shapes, quadXi : QuadratureRules, quadEta : QuadratureRules]
    /\ data = <<>>
    /\ mesh_proxy = "nullptr" /\ exit_code = 0
    /\ EmptyContainer
    /\ elements_count = 1
    /\ dof = 1 /\ first_node = 0 /\ last_node = elements_count + 2
    /\ inner_nodes = <<>> /\ bgroup = <<>> /\ bounds_cond = <<>>
    /\ K_bound = <<>> /\ f = <<>> /\ f_in = <<>> /\ x = <<>>
    /\ IdleIndexer

\* the call of set
ElementSet ==
    /\ sys = "elint" /\ pc = "call"
    /\ data' = element_2d_integrate_set(args.shape, args.quadXi, args.quadEta)
    /\ pc' = "set"
    /\ UNCHANGED <<args, mesh_proxy, exit_code>>
    /\ FrameDriver

InitDriver ==
    InitQuad \/ InitProxy \/ InitCli \/ InitSu2 \/ InitMass \/ InitElementSet

NextDriver ==
    \/ ApproxAllQuadNodes
    \/ Construct
    \/ SetMesh
    \/ Main
    \/ ReadSu2
    \/ IntegrateMass
    \/ ElementSet

SpecDriver == InitDriver /\ [][NextDriver]_vars

\* C13: in a stationary task with both ends SECOND_KIND on N nodes, K_inner is
\* (N+1)x(N+1), every node row holds column N exactly once and as its last
\* and largest column, row N holds only its diagonal, f has N+1 entries and the
\* returned solution has N; with any other boundary conditions K_inner is NxN,
\* no entry lies in column N, and f and the solution have N entries.
C13_NeumannAugmentation ==
    (sys = "st1d" /\ pc \in {"portrait", "matrix", "rhs", "returned"}) =>
        LET N == nodes_count_mesh_1d
        IN  /\ MatrixRows(K_inner) = N + (IF neumann_task THEN 1 ELSE 0)
            /\ Cardinality(DOMAIN f) = N + (IF neumann_task THEN 1 ELSE 0)
            /\ pc = "returned" => DOMAIN temperature = 0..(N - 1)
            /\ IF neumann_task
               THEN /\ \A n \in 0..(N - 1) :
                         LET cols == RowColumns(K_inner, n)
                         IN  /\ Len(cols) >= 1
                             /\ cols[Len(cols)] = N
                             /\ \A k \in 1..(Len(cols) - 1) : cols[k] < N
                    /\ RowColumns(K_inner, N) = <<N>>
               ELSE \A k \in DOMAIN K_inner.inner : K_inner.inner[k] < N

\* a Neumann task on three nodes has returned its three values
C13_Witness ==
    /\ sys = "st1d" /\ pc = "returned" /\ neumann_task
    /\ nodes_count_mesh_1d = 3
    /\ MatrixRows(K_inner) = 4
    /\ RowColumns(K_inner, 0) = <<0, 1, 3>>
    /\ Cardinality(DOMAIN temperature) = 3

\* C14: after calc_matrix of the 1D solver, the K_inner row of an end node
\* with a FIRST_KIND condition holds only the diagonal, with the value 1, no
\* other row holds an entry in that node's column, and K_bound of that end
\* holds the coupling of the adjacent row to the node.
C14_Separation1d ==
    (sys = "st1d" /\ pc \in {"matrix", "rhs", "returned"}) =>
        \A b \in 1..2 :
            boundary_first_kind[b] =>
                LET nb == fval(b - 1)
                    adjacent == IF b = 1 THEN 1 ELSE nodes_count_mesh_1d - 2
                IN  /\ RowColumns(K_inner, nb) = <<nb>>
                    /\ K_inner.value[K_inner.outer[nb] + 1] = 1
                    /\ \A r \in 0..(nodes_count_mesh_1d - 1) :
                          r # nb => \A k \in 1..Len(RowColumns(K_inner, r)) :
                                       RowColumns(K_inner, r)[k] # nb
                    /\ \E k \in 1..Len(K_bound[b]) : K_bound[b][k][1] = adjacent

\* C17: nonstationary() forms K_inner = C_inner + tau * K once, before the
\* loop, and no pass of the loop changes it; pass k leaves in f, at an end with
\* a FIRST_KIND condition, the prescribed value at the time t0 + k * tau, and
\* at every other node tau * (integral of the right part + second-kind value)
\* + (C_inner * temperature_prev).
C17_StepOrder ==
    [][/\ (sys = "ns1d" /\ pc = "call") =>
            \E K \in RaceOutcomes(
                      create_matrix_portrait(EmptyMatrix(nodes_count_mesh_1d), FALSE, nonlocal_task),
                      create_matrix(EmptyMatrix(nodes_count_mesh_1d), FALSE, nonlocal_task, "K")) :
                \A r, c \in 0..(nodes_count_mesh_1d - 1) :
                    coeff(K_inner', r, c) = coeff(C_inner', r, c) + tau * coeff(K, r, c)
       /\ (sys = "ns1d" /\ pc = "loop") =>
            /\ K_inner' = K_inner
            /\ C_inner' = C_inner
            /\ \A n \in 0..(nodes_count_mesh_1d - 1) :
                 LET t == sol_parameters.time_interval[1] + step * tau
                     b == IF n = 0 THEN 1 ELSE IF n = nodes_count_mesh_1d - 1 THEN 2 ELSE 0
                     volume == integrate_right_part_1d(
                                   [m \in 0..(nodes_count_mesh_1d - 1) |-> 0], right_part)[n]
                     flux == IF b # 0 /\ bounds_cond[b].first = "SECOND_KIND"
                             THEN Apply(bounds_cond[b].second, t) ELSE 0
                 IN  f'[n] = IF b # 0 /\ bounds_cond[b].first = "FIRST_KIND"
                             THEN Apply(bounds_cond[b].second, t)
                             ELSE tau * (volume + flux)
                                    + selfadjointView_Upper_times(C_inner, temperature)[n]
      ]_vars

\* the second pass of the loop has run with a temperature_prev that is not
\* zero: the left end, FIRST_KIND with the value t, holds t0 + 2 * tau = 5, the
\* right end has a second-kind flux
C17_Witness ==
    /\ sys = "ns1d" /\ pc = "done" /\ step = 3
    /\ sol_parameters.time_interval = <<1, 5>> /\ sol_parameters.steps = 2
    /\ bounds_cond[1] = [first |-> "FIRST_KIND", second |-> "coord"]
    /\ bounds_cond[2] = [first |-> "SECOND_KIND", second |-> "coord"]
    /\ right_part = "coord"
    /\ f[0] = 5
    /\ f_in[1] # f[1]

\* C15: integrate_right_part, integrate_boundary_condition_second_kind and the
\* overwrite of boundary_condition_first_kind write f only at the indices
\* DoF * (n - first_node) + c of the nodes first_node <= n < last_node, all
\* within [0, DoF * (last_node - first_node)); the first two change f nowhere
\* else.
C15_RankOwnership ==
    (sys = "bc" /\ pc # "assembled") =>
        LET start == [f |-> f_in, written |-> {}, pos |-> 1]
            W == IF pc = "right_part_done"
                 THEN RightPartFrom(start, RightPartLoops, [c1 \in 1..dof |-> "coord"]).written
                 ELSE IF pc = "second_done"
                 THEN SecondKindFrom(start, SecondKindLoops).written
                 ELSE OverwriteFrom(start, x, FirstKindLoops).written
        IN  /\ \A w \in W :
                 /\ w >= 0 /\ w < dof * (last_node - first_node)
                 /\ \E n \in first_node..(last_node - 1), c \in 0..(dof - 1) :
                       w = dof * (n - first_node) + c
            /\ pc \in {"right_part_done", "second_done"} =>
                 \A r \in DOMAIN f : f[r] # f_in[r] => r \in W

\* a rank that owns the nodes 1..2 of the four has run the first-kind step with
\* a first-kind condition on node 0, which it does not own, and on node 1
C15_Witness ==
    /\ sys = "bc" /\ pc = "done"
    /\ first_node = 1 /\ last_node = elements_count + 1
    /\ \E k \in DOMAIN FirstKindLoops :
          /\ type(FirstKindLoops[k][1], FirstKindLoops[k][4]) = "FIRST_KIND"
          /\ node_number_1d(FirstKindLoops[k][1], FirstKindLoops[k][2], FirstKindLoops[k][3]) = 0
    /\ OverwriteFrom([f |-> f_in, written |-> {}, pos |-> 1], x, FirstKindLoops).written # {}

C19_NullProxy ==
    (sys = "proxy" /\ pc # "new") =>
        /\ pc = "construction_failed" <=> args = <<"nullptr">>
        /\ pc = "invalid_argument" <=> (Len(args) > 1 /\ args[Len(args)] = "nullptr")
        /\ pc # "construction_failed" =>
              LET given == {k \in DOMAIN args : args[k] # "nullptr"}
                  last == CHOOSE k \in given : \A m \in given : m <= k
              IN  mesh_proxy # "nullptr" /\ mesh_proxy = args[last]

\* set_mesh(nullptr) has thrown on a solver that was given proxy_a, then proxy_b
C19_Witness ==
    /\ sys = "proxy" /\ pc = "invalid_argument"
    /\ args = <<"proxy_a", "proxy_b", "nullptr">>
    /\ mesh_proxy = "proxy_b"

\* C20: main exits with 2 when argc < 5, with 1 when the try block throws
\* while it parses the arguments, loads the mesh or solves, and with 0
\* otherwise (PETSc itself starting and finishing without an error).
C20_ExitCodes ==
    (/\ sys = "cli" /\ pc = "exited"
     /\ args.petsc_initialize = 0 /\ args.petsc_finalize = 0) =>
        exit_code = IF args.argc < 5 THEN 2
                    ELSE IF args.thrown # "none" THEN 1
                    ELSE 0

\* C21 as stated: after read_su2 the group "Default" is the range
\* [0, elements_2d_count), the ranges of the boundary groups are pairwise
\* disjoint and cover [elements_2d_count, total), and the range of a group holds
\* the elements parsed for the markers of its name, in file order.
C21_ElementGroups ==
    (sys = "su2" /\ pc = "read") =>
        LET total == Len(elements)
            Named(g) == {b \in DOMAIN args.markers : args.markers[b].name = g}
            Parsed(g) == Flatten([k \in 1..Cardinality(Named(g)) |->
                                    MarkerElements(args.markers, SortedSeq(Named(g))[k])])
            In(k, g) == elements_groups[g][1] <= k /\ k < elements_groups[g][2]
        IN  /\ elements_groups["Default"] = <<0, elements_2d_count>>
            /\ \A g \in groups_1d :
                  /\ elements_2d_count <= elements_groups[g][1]
                  /\ elements_groups[g][1] <= elements_groups[g][2]
                  /\ elements_groups[g][2] <= total
                  /\ SubSeq(elements, elements_groups[g][1] + 1, elements_groups[g][2])
                        = Parsed(g)
            /\ \A k \in elements_2d_count..(total - 1) :
                  Cardinality({g \in groups_1d : In(k, g)}) = 1

\* C22 as stated: integrate_function(e, i, func) is the sum over the quadrature
\* points q of weight(q) * qN(i, q) * func(coord(e, q)) * jacobian, func taken
\* at the q-th quadrature point; integrate_right_part adds it to f for every
\* node, element and component.
C22_VolumeIntegration ==
    (sys = "bc" /\ pc = "right_part_done") =>
        LET at_every_point(e, i) ==
                SumSeq([q1 \in 1..nodes_count_2d(e) |->
                           (IF i = q1 - 1 THEN 1 ELSE 0)
                               * Apply(right_part, mesh_node(node_number(e, q1 - 1)))])
            term(k, r) ==
                IF dof * (RightPartLoops[k][1] - first_node) + RightPartLoops[k][4] = r
                THEN at_every_point(RightPartLoops[k][2], RightPartLoops[k][3])
                ELSE 0
        IN  \A r \in DOMAIN f :
               f[r] = f_in[r] + SumSeq([k \in DOMAIN RightPartLoops |-> term(k, r)])

\* C23 as stated: integrate_basic_pair(e, i, j) of the 1D solver and
\* integrate_basic(e, i, J) of the elasticity code are the sums of one term for
\* each quadrature index q in 0..qnodes_count-1, also on an element whose
\* number of quadrature nodes differs from its number of nodes.
C23_MassAllQuadNodes ==
    (sys = "mass" /\ pc = "returned") =>
        LET el == args.el
            J(q1) == args.jacobi_matrices[q1][1] * args.jacobi_matrices[q1][4]
                       - args.jacobi_matrices[q1][2] * args.jacobi_matrices[q1][3]
            N(i, q1) == el.NInQuad[i * qnodes_count(el) + q1]
        IN  data = IF args.routine = "integrate_basic_pair"
                   THEN SumSeq([q1 \in 1..qnodes_count(el) |->
                                   el.weights[q1] * N(args.i, q1) * N(args.j, q1)])
                          * jacobian_mesh_1d
                   ELSE SumSeq([q1 \in 1..qnodes_count(el) |->
                                   el.weights[q1] * N(args.i, q1) * J(q1)])

\* C24 as stated: after set(quadXi, quadEta), for every xi-index j and
\* eta-index k the entries qN, qNxi and qNeta at j * nEta + k are the shape
\* functions at the point (xi_j, eta_jk), eta_jk = DOWN(xi_j) + (quadEta.node(k)
\* - quadEta.left) * jacobianEta(xi_j), whose weight is weight(j * nEta + k).
C24_TablesAtWeightedPoints ==
    (sys = "elint" /\ pc = "set") =>
        LET nXi == Len(args.quadXi.nodes)
            nEta == Len(args.quadEta.nodes)
            qn == nXi * nEta
            sh == args.shape
            jXi == (boundary(sh, "RIGHT", 0) - boundary(sh, "LEFT", 0))
                      \div (args.quadXi.right - args.quadXi.left)
            xi_(j) == boundary(sh, "LEFT", 0)
                        + (args.quadXi.nodes[j + 1] - args.quadXi.left) * jXi
            jEta(j) == (boundary(sh, "UP", xi_(j)) - boundary(sh, "DOWN", xi_(j)))
                          \div (args.quadEta.right - args.quadEta.left)
            eta_(j, k) == boundary(sh, "DOWN", xi_(j))
                            + (args.quadEta.nodes[k + 1] - args.quadEta.left) * jEta(j)
        IN  \A j \in 0..(nXi - 1), k \in 0..(nEta - 1) :
               /\ data.weights[j * nEta + k] =
                     args.quadXi.weights[j + 1] * jXi * args.quadEta.weights[k + 1] * jEta(j)
               /\ \A i \in 0..(shape_nodes_count(sh) - 1) :
                     /\ data.NInQuad[i * qn + j * nEta + k] = shape_N(sh, i, xi_(j), eta_(j, k))
                     /\ data.NxiInQuad[i * qn + j * nEta + k] = shape_Nxi(sh, i, xi_(j), eta_(j, k))
                     /\ data.NetaInQuad[i * qn + j * nEta + k] = shape_Neta(sh, i, xi_(j), eta_(j, k))

\* C25: in whatever order a thread's copy of the indexator is handed the nodes,
\* no test in stage() reads a bit that was set before the current node: the
\* bits fill(node) leaves set are disjoint from the (row % DoF, col) the
\* traversal of the node tests, so a bit is read as set only if the pair was
\* recorded during the current node.
C25_SeenBits ==
    [][\A t \in Threads :
          (sys = "idx" /\ pc \in {"shifts", "nonzero"} /\ cur'[t] # cur[t] /\ cur'[t] # -1) =>
              LET node == cur'[t]
                  Stage == IF pc = "shifts" THEN "SHIFTS" ELSE "NONZERO"
                  s0 == [K |-> [inner |-> K_inner, bound |-> K_bound],
                         bits |-> ind[t].bits, index |-> ind[t].index,
                         wr |-> [inner |-> {}, bound |-> {}], pos |-> 1]
                  left_set == fill(s0, node).bits
                  tested == mesh_index_body([s0 EXCEPT !.bits = NewIndexator.bits],
                                            Stage, node).bits
              IN  \A w \in Which, i \in 1..dof : left_set[w][i] \cap tested[w][i] = {}
      ]_vars

\* a thread has run the body of a node and its K_inner bitset still holds a
\* column below DoF * node, set during an earlier node and not cleared by fill
C25_Witness ==
    /\ sys = "idx"
    /\ \E t \in Threads :
          /\ cur[t] # -1
          /\ \E i \in 1..dof : \E c \in ind[t].bits.inner[i] : c < dof * cur[t]

\* C26 as stated: for every combination of boundary kinds and for the local
\* and the nonlocal case, calc_matrix inserts no new nonzero: after it every
\* row of K_inner stores the columns create_matrix_portrait gave it.
C26_PortraitCoversNumeric ==
    (sys = "st1d" /\ pc \in {"matrix", "rhs", "returned"}) =>
        LET portrait == create_matrix_portrait(EmptyMatrix(size), neumann_task, nonlocal_task)
        IN  \A r \in 0..(size - 1) : RowColumns(K_inner, r) = RowColumns(portrait, r)

\* C27: in the elasticity triplet assembly every element writes, in the local
\* and in the nonlocal pass, as many triplets as mesh_analysis counted for it,
\* all inside its slice [shifts[el], shifts[el+1]); the slices and the leading
\* block of identity triplets do not overlap, no write goes behind the arrays,
\* and every slot of triplets and triplets_bound is written exactly once.
C27_CountFillAgreement ==
    (sys = "el" /\ pc \in {"filled", "assembled"}) =>
        LET sh == mesh_analysis(theory = "NONLOCAL")
            fixed == Cardinality({d \in DOMAIN inner_nodes : ~inner_nodes[d]})
            Slice(w, who) ==
                IF who[1] = 0 - 1 THEN IF w = "inner" THEN 1..fixed ELSE {}
                ELSE LET shifts == IF w = "inner"
                                   THEN IF who[2] THEN sh.shifts_nonloc ELSE sh.shifts_loc
                                   ELSE IF who[2] THEN sh.shifts_bound_nonloc
                                                  ELSE sh.shifts_bound_loc
                     IN  (shifts[who[1]] + 1)..shifts[who[1] + 1]
            Passes == IF theory = "NONLOCAL" THEN {FALSE, TRUE} ELSE {FALSE}
        IN  /\ ~writes.overrun
            /\ \A w \in Which :
                  /\ \A k \in DOMAIN writes[w] :
                        /\ Len(writes[w][k]) = 1
                        /\ k \in Slice(w, writes[w][k][1])
                  /\ \A el \in 0..(elements_count - 1), nonloc \in Passes :
                        Cardinality({k \in DOMAIN writes[w] : <<el, nonloc>> \in Range(writes[w][k])})
                            = Cardinality(Slice(w, <<el, nonloc>>))
            /\ pc = "filled" =>
                  /\ DOMAIN writes.inner = DOMAIN triplets
                  /\ DOMAIN writes.bound = DOMAIN triplets_bound

\* a nonlocal assembly with a first-kind DoF has filled both arrays: identity
\* triplets, triplets of the local pass and of the nonlocal pass in triplets,
\* and triplets in triplets_bound
C27_Witness ==
    /\ sys = "el" /\ pc = "filled" /\ theory = "NONLOCAL" /\ elements_count >= 2
    /\ \E k \in DOMAIN writes.inner : writes.inner[k] = <<<<0 - 1, FALSE>>>>
    /\ \E k \in DOMAIN writes.inner : writes.inner[k] = <<<<1, FALSE>>>>
    /\ \E k \in DOMAIN writes.inner : writes.inner[k] = <<<<1, TRUE>>>>
    /\ \E k \in DOMAIN writes.bound : writes.bound[k] = <<<<0, TRUE>>>>

\* the steps the logger is to be called for, in order: 0 unless save_freq is
\* the largest uintmax_t, then the multiples of save_freq up to steps
LoggedSteps ==
    (IF sol_parameters.save_freq # uintmax_max THEN <<0>> ELSE <<>>)
        \o SortedSeq({k \in 1..sol_parameters.steps : k % sol_parameters.save_freq = 0})

\* C29: when nonstationary() has left its loop it has made exactly steps
\* passes, for k = 1, ..., steps in this order, pass k with the boundary values
\* of the time t0 + k * tau and with the result of pass k - 1 as
\* temperature_prev, and the logger was called for step 0 (unless save_freq is
\* the largest uintmax_t) and for the k with k mod save_freq = 0, in
\* increasing order.
C29_TimeStepLoop ==
    (sys = "ns1d" /\ pc = "done") =>
        /\ Len(writes) = sol_parameters.steps
        /\ \A k \in 1..Len(writes) :
              /\ writes[k].step = k
              /\ writes[k].time = sol_parameters.time_interval[1] + k * tau
              /\ k > 1 => writes[k].prev = writes[k - 1].curr
        /\ [k \in 1..Len(data) |-> data[k].step] = LoggedSteps

\* C30: the state the logger gets as step 0, and the temperature_prev of the
\* first pass of the loop, is init_dist at the nodes of the mesh.
C30_InitialDistribution ==
    (sys = "ns1d" /\ pc \in {"loop", "done"}) =>
        LET u0 == [i \in 0..(nodes_count_mesh_1d - 1) |-> Apply(args.init_dist, mesh_node(i))]
        IN  /\ sol_parameters.save_freq # uintmax_max => data[1].temperature = u0
            /\ Len(writes) >= 1 => writes[1].prev = u0
====
